---- MODULE Spec2Model ----
(***************************************************************************)
(* A model of the AMW block parser (amw_parse and the sub-parsers it      *)
(* drives).  A line is a sequence of one-character strings, a document a  *)
(* sequence of lines.  Every C function that takes the parser becomes an  *)
(* operator from the parser record to a record holding the parser after   *)
(* the call (field p), the returned UwResult (field r) and the values     *)
(* written through its out-parameters.  Positions are 0-based as in C.    *)
(***************************************************************************)
EXTENDS Integers, Sequences, FiniteSets, TLC

\* ------------------------------------------------------------------ bounds

\* longest generated document, in lines
MaxLines == 3
\* deepest indent of a generated line
MaxIndent == 2

\* ------------------------------------------------------- program constants

AMW_MAX_RESURSION_DEPTH == 100
AMW_COMMENT == "#"
\* what uw_char_at yields beyond the end of a string
NUL == "NUL"

\* ------------------------------------------------------------------ values

UwNull == [t |-> "null"]
UwBool(b) == [t |-> "bool", v |-> b]
UwSigned(n) == [t |-> "signed", v |-> n]
UwUnsigned(n) == [t |-> "unsigned", v |-> n]
UwFloat(m, e) == [t |-> "float", v |-> <<m, e>>]
UwString(s) == [t |-> "string", v |-> s]
UwList(items) == [t |-> "list", v |-> items]
UwMap(pairs) == [t |-> "map", v |-> pairs]
UwOK == [t |-> "status", code |-> "OK"]
UwError(code) == [t |-> "status", code |-> code]

\* v under the name the second argument gives it: With(v, LAMBDA x : e) is
\* e with x standing for v, as a local variable assigned once does in C
With(v, Body(_)) == Body(v)

\* a status other than success
uw_error(v) == v.t = "status" /\ v.code # "OK"
uw_eof(v) == v.t = "status" /\ v.code = "EOF"
uw_is_string(v) == v.t = "string"

\* uw_map_update: overwrite the value of an equal key, else append the pair
RECURSIVE uw_map_update(_, _, _)
uw_map_update(pairs, key, value) ==
    IF pairs = <<>> THEN << <<key, value>> >>
    ELSE IF pairs[1][1] = key THEN << <<key, value>> >> \o Tail(pairs)
    ELSE <<pairs[1]>> \o uw_map_update(Tail(pairs), key, value)

\* ----------------------------------------------------------------- strings

uw_isspace(c) == c \in {" ", "\t"}
uw_strlen(s) == Len(s)
uw_string_index_valid(s, pos) == pos >= 0 /\ pos < Len(s)
uw_char_at(s, pos) == IF uw_string_index_valid(s, pos) THEN s[pos + 1] ELSE NUL

\* the characters at [start, end), clipped to the string
uw_substr(s, start, end) ==
    LET e == IF end > Len(s) THEN Len(s) ELSE end
    IN  IF start >= e THEN <<>> ELSE SubSeq(s, start + 1, e)

RECURSIVE uw_string_skip_spaces(_, _)
uw_string_skip_spaces(s, pos) ==
    IF pos < Len(s) /\ uw_isspace(s[pos + 1])
    THEN uw_string_skip_spaces(s, pos + 1)
    ELSE pos

RECURSIVE uw_string_rtrim(_)
uw_string_rtrim(s) ==
    IF s # <<>> /\ uw_isspace(s[Len(s)])
    THEN uw_string_rtrim(SubSeq(s, 1, Len(s) - 1))
    ELSE s

uw_string_ltrim(s) == uw_substr(s, uw_string_skip_spaces(s, 0), Len(s))
uw_string_trim(s) == uw_string_ltrim(uw_string_rtrim(s))

\* uw_strchr: position of the first chr at or after start, or -1
RECURSIVE uw_strchr(_, _, _)
uw_strchr(s, chr, start) ==
    IF start >= Len(s) THEN -1
    ELSE IF s[start + 1] = chr THEN start
    ELSE uw_strchr(s, chr, start + 1)

uw_substring_eq(s, start, end, word) ==
    end <= Len(s) /\ uw_substr(s, start, end) = word

\* uw_list_join: the lines with sep between each two
RECURSIVE uw_list_join(_, _)
uw_list_join(sep, lines) ==
    IF lines = <<>> THEN <<>>
    ELSE IF Len(lines) = 1 THEN lines[1]
    ELSE lines[1] \o <<sep>> \o uw_list_join(sep, Tail(lines))

Min(a, b) == IF a < b THEN a ELSE b

\* least indent among the non-empty lines, or -1 when there is none
RECURSIVE min_indent(_)
min_indent(lines) ==
    IF lines = <<>> THEN -1
    ELSE LET rest == min_indent(Tail(lines))
             here == uw_string_skip_spaces(lines[1], 0)
         IN  IF lines[1] = <<>> THEN rest
             ELSE IF rest = -1 THEN here
             ELSE Min(here, rest)

\* uw_list_dedent: strip the common indent of the non-empty lines
uw_list_dedent(lines) ==
    LET n == min_indent(lines)
    IN  IF n <= 0 THEN lines
        ELSE [i \in 1..Len(lines) |-> uw_substr(lines[i], n, Len(lines[i]))]


\* ------------------------------------------------------------- line source

\* The markup as the line reader sees it: the lines, how many were handed out,
\* the one-deep push-back slot and the number of the last line delivered.
Markup(lines) ==
    [lines |-> lines, pos |-> 0, pushback |-> <<>>, line_number |-> 0]

\* uw_read_line_inplace as it would be if a line that waits in the push-back
\* buffer stayed there when it is read again
read_line_keeping_pushback(m) ==
    IF m.pushback # <<>>
    THEN [m |-> [m EXCEPT !.line_number = @ + 1],
          status |-> UwOK, line |-> m.pushback[1]]
    ELSE IF m.pos < Len(m.lines)
    THEN [m |-> [m EXCEPT !.pos = @ + 1, !.line_number = @ + 1],
          status |-> UwOK, line |-> m.lines[m.pos + 1]]
    ELSE [m |-> m, status |-> UwError("EOF"), line |-> <<>>]

uw_read_line_inplace(m) ==
    IF m.pushback # <<>>
    THEN [m |-> [m EXCEPT !.pushback = <<>>, !.line_number = @ + 1],
          status |-> UwOK, line |-> m.pushback[1]]
    ELSE IF m.pos < Len(m.lines)
    THEN [m |-> [m EXCEPT !.pos = @ + 1, !.line_number = @ + 1],
          status |-> UwOK, line |-> m.lines[m.pos + 1]]
    ELSE [m |-> m, status |-> UwError("EOF"), line |-> <<>>]

uw_unread_line(m, line) ==
    IF m.pushback # <<>>
    THEN [m |-> m, status |-> UwError("PUSHBACK_FULL")]
    ELSE [m |-> [m EXCEPT !.pushback = <<line>>, !.line_number = @ - 1],
          status |-> UwOK]

uw_get_line_number(m) == m.line_number

\* ------------------------------------------------------------ parser state

RAW == <<"r", "a", "w">>
LITERAL == <<"l", "i", "t", "e", "r", "a", "l">>
FOLDED == <<"f", "o", "l", "d", "e", "d">>
ISODATE == <<"i", "s", "o", "d", "a", "t", "e">>
TIMESTAMP == <<"t", "i", "m", "e", "s", "t", "a", "m", "p">>
JSON == <<"j", "s", "o", "n">>

\* the registry amw_create_parser builds: specifier name -> parser function
builtin_parsers ==
    (RAW :> "parse_raw_value") @@ (LITERAL :> "parse_literal_string")
    @@ (FOLDED :> "parse_folded_string") @@ (ISODATE :> "parse_isodate")
    @@ (TIMESTAMP :> "parse_timestamp") @@ (JSON :> "_amw_json_parser_func")

\* log is a history of what the parser did to its input and which errors it
\* made; null_line says what the string library does with a destroyed line.
amw_create_parser(lines, null_line) ==
    [markup |-> Markup(lines),
     current_line |-> <<>>,
     line_valid |-> TRUE,
     current_indent |-> 0,
     line_number |-> 0,
     block_indent |-> 0,
     blocklevel |-> 1,
     max_blocklevel |-> AMW_MAX_RESURSION_DEPTH,
     skip_comments |-> TRUE,
     eof |-> FALSE,
     custom_parsers |-> builtin_parsers,
     null_line |-> null_line,
     log |-> <<>>]

\* amw_set_custom_parser as it would be if it kept the function a name
\* already has
set_custom_parser_keeping_first(p, convspec, parser_func) ==
    [p EXCEPT !.custom_parsers =
        [k \in (DOMAIN @) \cup {convspec} |->
            IF k \in DOMAIN @ THEN @[k] ELSE parser_func]]

amw_set_custom_parser(p, convspec, parser_func) ==
    [p EXCEPT !.custom_parsers =
        [k \in (DOMAIN @) \cup {convspec} |->
            IF k = convspec THEN parser_func ELSE @[k]]]

have_custom_parser(p, convspec) == convspec \in DOMAIN p.custom_parsers
get_custom_parser(p, convspec) == p.custom_parsers[convspec]

Logged(p, event) == [p EXCEPT !.log = Append(@, event)]

\* the history's record of a return from a nested block: block_indent and
\* blocklevel as the returning function leaves them in q, and as they were in
\* p when it was called
Left(p, q) ==
    Logged(q, <<"leave", q.block_indent, q.blocklevel,
                p.block_indent, p.blocklevel>>)

_amw_parser_error(p, line_number, pos, description) ==
    LET e == [t |-> "status", code |-> "PARSE_ERROR",
              line_number |-> line_number, position |-> pos,
              desc |-> description]
    IN  [p |-> Logged(p, <<"error", e>>), r |-> e]

parser_error(p, pos, description) ==
    _amw_parser_error(p, p.line_number, pos, description)

\* the process stops inside the string library (a destroyed line was used)
Aborted(p) == [p |-> Logged(p, <<"abort">>), r |-> UwError("ABORT")]

\* _amw_end_of_block as it would be if no status were the end of a block
end_of_block_never(status) == FALSE

_amw_end_of_block(status) ==
    status.t = "status" /\ status.code = "END_OF_BLOCK"

end_of_line(str, position) == ~uw_string_index_valid(str, position)

isspace_or_eol_at(str, position) ==
    IF end_of_line(str, position) THEN TRUE
    ELSE uw_isspace(uw_char_at(str, position))

read_line(p) ==
    With(uw_read_line_inplace(p.markup), LAMBDA rd :
      With(uw_string_rtrim(rd.line), LAMBDA line :
        IF uw_error(rd.status)
        THEN [p |-> [p EXCEPT !.markup = rd.m], r |-> rd.status]
        ELSE [p |-> Logged([p EXCEPT !.markup = rd.m,
                                     !.current_line = line,
                                     !.current_indent = uw_string_skip_spaces(line, 0),
                                     !.line_number = uw_get_line_number(rd.m)],
                           <<"read", uw_get_line_number(rd.m)>>),
              r |-> UwOK]))

is_comment_line(p) ==
    uw_char_at(p.current_line, p.current_indent) = AMW_COMMENT

\* the end of a block as it would be if the line were not pushed back
unread_dropping_line(q) ==
    [p |-> [Logged(q, <<"unread", q.line_number>>) EXCEPT !.current_line = <<>>],
     r |-> UwError("END_OF_BLOCK")]

\* the line is unindented and no comment: push it back and end the block
unread_current_line(q) ==
    With(uw_unread_line(q.markup, q.current_line), LAMBDA un :
      With(Logged([q EXCEPT !.markup = un.m], <<"unread", q.line_number>>),
           LAMBDA q3 :
        IF uw_error(un.status) THEN [p |-> q3, r |-> un.status]
        ELSE [p |-> [q3 EXCEPT !.current_line = <<>>],
              r |-> UwError("END_OF_BLOCK")]))

RECURSIVE read_block_line_loop(_)
\* the loop of _amw_read_block_line as it would be if an unindented comment
\* line ended the block like any other unindented line
read_block_line_loop_ending_at_comment(p) ==
    With(read_line(p), LAMBDA rl :
      With(rl.p, LAMBDA q :
        With([q EXCEPT !.skip_comments = FALSE], LAMBDA q2 :
          IF uw_eof(rl.r)
          THEN [p |-> [q EXCEPT !.eof = TRUE, !.current_line = <<>>,
                                !.line_valid = FALSE],
                r |-> UwError("END_OF_BLOCK")]
          ELSE IF uw_error(rl.r) THEN rl
          ELSE IF q.skip_comments /\ uw_strlen(q.current_line) = 0
          THEN read_block_line_loop(q)
          ELSE IF q.skip_comments /\ is_comment_line(q)
          THEN read_block_line_loop(q)
          ELSE IF uw_strlen(q2.current_line) = 0 THEN [p |-> q2, r |-> UwOK]
          ELSE IF q2.current_indent >= q2.block_indent THEN [p |-> q2, r |-> UwOK]
          ELSE unread_current_line(q2))))

\* the loop of _amw_read_block_line as it would be if it returned an
\* unindented comment line like a line of the block
read_block_line_loop_returning_comment(p) ==
    With(read_line(p), LAMBDA rl :
      With(rl.p, LAMBDA q :
        With([q EXCEPT !.skip_comments = FALSE], LAMBDA q2 :
          IF uw_eof(rl.r)
          THEN [p |-> [q EXCEPT !.eof = TRUE, !.current_line = <<>>,
                                !.line_valid = FALSE],
                r |-> UwError("END_OF_BLOCK")]
          ELSE IF uw_error(rl.r) THEN rl
          ELSE IF q.skip_comments /\ uw_strlen(q.current_line) = 0
          THEN read_block_line_loop(q)
          ELSE IF q.skip_comments /\ is_comment_line(q)
          THEN read_block_line_loop(q)
          ELSE IF uw_strlen(q2.current_line) = 0 THEN [p |-> q2, r |-> UwOK]
          ELSE IF q2.current_indent >= q2.block_indent THEN [p |-> q2, r |-> UwOK]
          ELSE IF is_comment_line(q2) THEN [p |-> q2, r |-> UwOK]
          ELSE unread_current_line(q2))))

read_block_line_loop(p) ==
    With(read_line(p), LAMBDA rl :
      With(rl.p, LAMBDA q :
        With([q EXCEPT !.skip_comments = FALSE], LAMBDA q2 :
          IF uw_eof(rl.r)
          THEN [p |-> [q EXCEPT !.eof = TRUE, !.current_line = <<>>,
                                !.line_valid = FALSE],
                r |-> UwError("END_OF_BLOCK")]
          ELSE IF uw_error(rl.r) THEN rl
          ELSE IF q.skip_comments /\ uw_strlen(q.current_line) = 0
          THEN read_block_line_loop(q)
          ELSE IF q.skip_comments /\ is_comment_line(q)
          THEN read_block_line_loop(q)
          ELSE IF uw_strlen(q2.current_line) = 0 THEN [p |-> q2, r |-> UwOK]
          ELSE IF q2.current_indent >= q2.block_indent THEN [p |-> q2, r |-> UwOK]
          ELSE IF is_comment_line(q2) THEN read_block_line_loop(q2)
          ELSE unread_current_line(q2))))

\* _amw_read_block_line as it would be if a call made after the end of the
\* source cleared the eof flag
read_block_line_resetting_eof(p) ==
    IF p.eof
    THEN [p |-> [p EXCEPT !.eof = FALSE],
          r |-> IF p.blocklevel # 0 THEN UwError("END_OF_BLOCK")
                ELSE UwError("EOF")]
    ELSE read_block_line_loop(p)

_amw_read_block_line(p) ==
    IF p.eof
    THEN [p |-> p,
          r |-> IF p.blocklevel # 0 THEN UwError("END_OF_BLOCK")
                ELSE UwError("EOF")]
    ELSE read_block_line_loop(p)

\* the lines of the current block from current_line on, block indent removed
RECURSIVE _amw_read_block_from(_, _)
_amw_read_block_from(p, lines) ==
    With(Append(lines, uw_substr(p.current_line, p.block_indent,
                                 Len(p.current_line))), LAMBDA got :
      With(_amw_read_block_line(p), LAMBDA rb :
        IF _amw_end_of_block(rb.r) THEN [p |-> rb.p, r |-> UwList(got)]
        ELSE IF uw_error(rb.r) THEN rb
        ELSE _amw_read_block_from(rb.p, got)))

_amw_read_block(p) == _amw_read_block_from(p, <<>>)

get_start_position(p) ==
    IF p.block_indent < p.current_indent THEN p.current_indent
    ELSE uw_string_skip_spaces(p.current_line, p.block_indent)

\* parse_convspec: r is the specifier string or UwNull; end_pos is where the
\* search for the closing colon stopped (-1: no colon)
parse_convspec(p, opening_colon_pos) ==
    LET start_pos == opening_colon_pos + 1
        end_pos == uw_strchr(p.current_line, ":", start_pos)
        convspec == uw_string_trim(uw_substr(p.current_line, start_pos, end_pos))
    IN  IF end_pos = -1 THEN [r |-> UwNull, end_pos |-> end_pos]
        ELSE IF end_pos = start_pos THEN [r |-> UwNull, end_pos |-> end_pos]
        ELSE IF ~isspace_or_eol_at(p.current_line, end_pos + 1)
        THEN [r |-> UwNull, end_pos |-> end_pos]
        ELSE IF ~have_custom_parser(p, convspec)
        THEN [r |-> UwNull, end_pos |-> end_pos]
        ELSE [r |-> UwString(convspec), end_pos |-> end_pos]

comment_or_end_of_line(p, position) ==
    LET pos == uw_string_skip_spaces(p.current_line, position)
    IN  end_of_line(p.current_line, pos)
        \/ uw_char_at(p.current_line, pos) = AMW_COMMENT

\* ---------------------------------------------------------- block strings

\* the lines joined by line breaks, one more after the last if there are
\* several lines
\* join_with_line_breaks as it would be if a single line got a line break too
join_with_final_line_break(lines) == uw_list_join("\n", Append(lines, <<>>))

join_with_line_breaks(lines) ==
    uw_list_join("\n", IF Len(lines) > 1 THEN Append(lines, <<>>) ELSE lines)

parse_raw_value(p) ==
    With(_amw_read_block(p), LAMBDA rb :
      IF uw_error(rb.r) THEN rb
      ELSE [p |-> rb.p, r |-> UwString(join_with_line_breaks(rb.r.v))])

RECURSIVE drop_trailing_empty(_)
drop_trailing_empty(lines) ==
    IF lines # <<>> /\ lines[Len(lines)] = <<>>
    THEN drop_trailing_empty(SubSeq(lines, 1, Len(lines) - 1))
    ELSE lines

drop_empty(lines) == SelectSeq(lines, LAMBDA l : l # <<>>)

parse_literal_string(p) ==
    With(_amw_read_block(p), LAMBDA rb :
      IF uw_error(rb.r) THEN rb
      ELSE [p |-> rb.p,
            r |-> UwString(join_with_line_breaks(
                      drop_trailing_empty(uw_list_dedent(rb.r.v))))])

parse_folded_string(p) ==
    With(_amw_read_block(p), LAMBDA rb :
      IF uw_error(rb.r) THEN rb
      ELSE With(drop_empty(uw_list_dedent(rb.r.v)), LAMBDA lines :
             IF Len(lines) = 0 THEN [p |-> rb.p, r |-> UwString(<<>>)]
             ELSE [p |-> rb.p, r |-> UwString(uw_list_join(" ", lines))]))

parse_isodate(p) == [p |-> p, r |-> UwError("NOT_IMPLEMENTED")]
parse_timestamp(p) == [p |-> p, r |-> UwError("NOT_IMPLEMENTED")]
_amw_json_parser_func(p) == [p |-> p, r |-> UwError("NOT_IMPLEMENTED")]


\* ----------------------------------------------------------------- numbers

\* width of the unsigned accumulator (UwType_Unsigned), scaled down
UnsignedBits == 16
UW_UNSIGNED_MOD == 2 ^ UnsignedBits
UW_SIGNED_MAX == 2 ^ (UnsignedBits - 1) - 1

DecDigits == <<"0", "1", "2", "3", "4", "5", "6", "7", "8", "9">>
LowerHex == <<"a", "b", "c", "d", "e", "f">>
UpperHex == <<"A", "B", "C", "D", "E", "F">>

IndexOf(seq, c) == CHOOSE i \in 1..Len(seq) : seq[i] = c
InSeq(seq, c) == \E i \in 1..Len(seq) : seq[i] = c
is_dec_digit(c) == InSeq(DecDigits, c)
dec_value(c) == IndexOf(DecDigits, c) - 1

\* digit_value as it would be if radix 16 knew the digits a-f in lower case only
digit_value_lower_case_only(chr, radix) ==
    IF radix = 16 /\ InSeq(LowerHex, chr) THEN IndexOf(LowerHex, chr) + 9
    ELSE IF is_dec_digit(chr) /\ dec_value(chr) < radix THEN dec_value(chr)
    ELSE -1

\* the value of chr as a digit of the radix, or -1 when it is none
digit_value(chr, radix) ==
    IF radix = 16
    THEN IF InSeq(LowerHex, chr) THEN IndexOf(LowerHex, chr) + 9
         ELSE IF InSeq(UpperHex, chr) THEN IndexOf(UpperHex, chr) + 9
         ELSE IF is_dec_digit(chr) THEN dec_value(chr)
         ELSE -1
    ELSE IF is_dec_digit(chr) /\ dec_value(chr) < radix THEN dec_value(chr)
    ELSE -1

\* parse_unsigned's loop: pos0 is *pos at the call, pos the running position
RECURSIVE parse_unsigned_loop(_, _, _, _, _, _, _)
parse_unsigned_loop(p, pos0, pos, radix, result, digit_seen, separator_seen) ==
    LET line == p.current_line
        chr == uw_char_at(line, pos)
        d == digit_value(chr, radix)
        next == (result * radix + d) % UW_UNSIGNED_MOD
    IN  IF chr = "'" \/ chr = "_"
        THEN IF separator_seen
             THEN parser_error(p, pos, "Duplicate separator in the number")
                      @@ [pos |-> pos0]
             ELSE IF ~digit_seen
             THEN parser_error(p, pos,
                      "Separator is not allowed in the beginning of number")
                      @@ [pos |-> pos0]
             ELSE IF end_of_line(line, pos + 1)
             THEN parser_error(p, pos + 1, "Bad number") @@ [pos |-> pos0]
             ELSE parse_unsigned_loop(p, pos0, pos + 1, radix, result,
                                      digit_seen, TRUE)
        ELSE IF d = -1
        THEN IF ~digit_seen
             THEN parser_error(p, pos, "Bad number") @@ [pos |-> pos0]
             ELSE [p |-> p, r |-> UwUnsigned(result), pos |-> pos]
        ELSE IF next < result
        THEN parser_error(p, pos0, "Numeric overflow") @@ [pos |-> pos0]
        ELSE IF end_of_line(line, pos + 1)
        THEN [p |-> p, r |-> UwUnsigned(next), pos |-> pos + 1]
        ELSE parse_unsigned_loop(p, pos0, pos + 1, radix, next, TRUE, FALSE)

parse_unsigned(p, pos, radix) ==
    parse_unsigned_loop(p, pos, pos, radix, 0, FALSE, FALSE)

RECURSIVE skip_digits(_, _)
skip_digits(str, pos) ==
    IF ~end_of_line(str, pos) /\ is_dec_digit(uw_char_at(str, pos))
    THEN skip_digits(str, pos + 1)
    ELSE pos

\* the decimal digits of str at [from, to) as a natural number
RECURSIVE digits_value(_, _, _)
digits_value(str, from, to) ==
    IF from >= to THEN 0
    ELSE digits_value(str, from, to - 1) * 10 + dec_value(uw_char_at(str, to - 1))

RECURSIVE normal_float(_, _)
normal_float(m, e) ==
    IF m = 0 THEN <<0, 0>>
    ELSE IF m % 10 = 0 THEN normal_float(m \div 10, e + 1)
    ELSE <<m, e>>

\* strtod when the ends of the integer part, the fraction and the exponent
\* digits are known
strtod_value(number, int_end, has_frac, frac_end, exp_start, exp_end) ==
    LET frac_len == IF has_frac THEN frac_end - (int_end + 1) ELSE 0
        mant == digits_value(number, 0, int_end) * (10 ^ frac_len)
                + (IF has_frac THEN digits_value(number, int_end + 1, frac_end)
                   ELSE 0)
        has_exp == uw_char_at(number, frac_end) \in {"e", "E"}
                   /\ exp_end > exp_start
        negative == exp_start = frac_end + 2
                    /\ uw_char_at(number, frac_end + 1) = "-"
        exp == IF ~has_exp THEN 0
               ELSE IF negative THEN 0 - digits_value(number, exp_start, exp_end)
               ELSE digits_value(number, exp_start, exp_end)
    IN  [v |-> normal_float(mant, exp - frac_len),
         erange |-> mant # 0 /\ (exp > 308 \/ exp < -323)]

\* strtod on a text that starts with a digit: the longest prefix of the form
\* digits [. digits] [(e|E) [+|-] digits] as mantissa and decimal exponent
strtod(number) ==
    With(skip_digits(number, 0), LAMBDA int_end :
      With(uw_char_at(number, int_end) = ".", LAMBDA has_frac :
        With(IF has_frac THEN skip_digits(number, int_end + 1) ELSE int_end,
             LAMBDA frac_end :
          With(IF uw_char_at(number, frac_end + 1) \in {"+", "-"}
               THEN frac_end + 2 ELSE frac_end + 1, LAMBDA exp_start :
            strtod_value(number, int_end, has_frac, frac_end, exp_start,
                         skip_digits(number, exp_start))))))

\* the tail of _amw_parse_number (label done)
number_done(p, start_pos, sign, pos, is_float, base) ==
    With(strtod(uw_substr(p.current_line, start_pos, pos)), LAMBDA fl :
      IF is_float
      THEN IF fl.erange
           THEN parser_error(p, start_pos, "Floating point overflow")
                    @@ [end_pos |-> -1]
           ELSE [p |-> p, end_pos |-> pos,
                 r |-> UwFloat(IF sign < 0 THEN 0 - fl.v[1] ELSE fl.v[1], fl.v[2])]
      ELSE IF base > UW_SIGNED_MAX
      THEN IF sign < 0
           THEN parser_error(p, start_pos, "Integer overflow") @@ [end_pos |-> -1]
           ELSE [p |-> p, end_pos |-> pos, r |-> UwUnsigned(base)]
      ELSE [p |-> p, end_pos |-> pos,
            r |-> UwSigned(IF sign < 0 THEN 0 - base ELSE base)])

\* _amw_parse_number between parse_unsigned and the label done: the checks
\* for fraction and exponent from pos on.  error is the description of the
\* parse error they end with, or empty; else pos is where the number ends
number_tail(line, pos, radix) ==
    LET chr == uw_char_at(line, pos)
        is_frac == chr = "."
        \* position and character at the exponent check
        epos == IF is_frac THEN skip_digits(line, pos + 1) ELSE pos
        echr == uw_char_at(line, epos)
        sign_end == IF uw_char_at(line, epos + 1) \in {"-", "+"}
                    THEN epos + 2 ELSE epos + 1
        float_only ==
            [error |-> "Only decimal representation is supported for floating point numbers",
             pos |-> -1, is_float |-> FALSE]
    IN  IF end_of_line(line, pos)
        THEN [error |-> "", pos |-> pos, is_float |-> FALSE]
        ELSE IF is_frac /\ radix # 10 THEN float_only
        ELSE IF is_frac /\ end_of_line(line, epos)
        THEN [error |-> "", pos |-> epos, is_float |-> TRUE]
        ELSE IF echr = "e" \/ echr = "E"
        THEN IF radix # 10 THEN float_only
             ELSE IF end_of_line(line, epos + 1)
             THEN [error |-> "", pos |-> epos + 1, is_float |-> TRUE]
             ELSE [error |-> "", pos |-> skip_digits(line, sign_end),
                   is_float |-> TRUE]
        ELSE IF echr # AMW_COMMENT /\ echr # ":" /\ ~uw_isspace(echr)
        THEN [error |-> "Bad number", pos |-> -1, is_float |-> FALSE]
        ELSE [error |-> "", pos |-> epos, is_float |-> is_frac]

\* _amw_parse_number after the radix prefix: pos0 is at the first digit
number_body(p, start_pos, sign, pos0, radix) ==
    With(parse_unsigned(p, pos0, radix), LAMBDA pu :
      IF uw_error(pu.r) THEN [p |-> pu.p, r |-> pu.r, end_pos |-> -1]
      ELSE With(number_tail(p.current_line, pu.pos, radix), LAMBDA tail :
             IF tail.error # ""
             THEN parser_error(p, start_pos, tail.error) @@ [end_pos |-> -1]
             ELSE number_done(p, start_pos, sign, tail.pos, tail.is_float,
                              pu.r.v)))

_amw_parse_number(p, start_pos, sign) ==
    LET line == p.current_line
        zero == uw_char_at(line, start_pos) = "0"
        second == uw_char_at(line, start_pos + 1)
        radix == IF second \in {"b", "B"} THEN 2
                 ELSE IF second \in {"o", "O"} THEN 8
                 ELSE IF second \in {"x", "X"} THEN 16
                 ELSE 10
        pos == IF radix = 10 THEN start_pos + 1 ELSE start_pos + 2
    IN  IF zero /\ end_of_line(line, start_pos + 1)
        THEN number_done(p, start_pos, sign, start_pos + 1, FALSE, 0)
        ELSE IF zero /\ end_of_line(line, pos)
        THEN parser_error(p, start_pos, "Bad number") @@ [end_pos |-> -1]
        ELSE number_body(p, start_pos, sign,
                         IF zero THEN pos ELSE start_pos,
                         IF zero THEN radix ELSE 10)


\* ----------------------------------------------------------- quoted strings

\* the printable ASCII characters, from code 32 on (GRAVE: the backquote)
Ascii ==
    <<" ", "!", "\"", "#", "$", "%", "&", "'", "(", ")", "*", "+", ",", "-",
      ".", "/", "0", "1", "2", "3", "4", "5", "6", "7", "8", "9", ":", ";",
      "<", "=", ">", "?", "@", "A", "B", "C", "D", "E", "F", "G", "H", "I",
      "J", "K", "L", "M", "N", "O", "P", "Q", "R", "S", "T", "U", "V", "W",
      "X", "Y", "Z", "[", "\\", "]", "^", "_", "GRAVE", "a", "b", "c", "d", "e",
      "f", "g", "h", "i", "j", "k", "l", "m", "n", "o", "p", "q", "r", "s",
      "t", "u", "v", "w", "x", "y", "z", "{", "|", "}", "~">>

\* the character with code point n
code_char(n) ==
    IF n >= 32 /\ n - 31 <= Len(Ascii) THEN Ascii[n - 31]
    ELSE IF n = 9 THEN "\t"
    ELSE IF n = 10 THEN "\n"
    ELSE IF n = 12 THEN "\f"
    ELSE IF n = 13 THEN "\r"
    ELSE "U+" \o ToString(n)

\* the digits after \o: pos is the position before the next digit
RECURSIVE octal_digits(_, _, _, _)
octal_digits(line, pos, i, v) ==
    LET c == uw_char_at(line, pos + 1)
    IN  IF i = 3 THEN [desc |-> "", v |-> v, pos |-> pos]
        ELSE IF end_of_line(line, pos + 1)
        THEN IF i = 0
             THEN [desc |-> "Incomplete octal value", v |-> v, pos |-> pos + 1]
             ELSE [desc |-> "", v |-> v, pos |-> pos + 1]
        ELSE IF digit_value(c, 8) # -1
        THEN octal_digits(line, pos + 1, i + 1, v * 8 + digit_value(c, 8))
        ELSE [desc |-> "Bad octal value", v |-> v, pos |-> pos + 1]

\* the digits after \x, \u, \U
RECURSIVE hex_digits(_, _, _, _, _)
hex_digits(line, pos, i, hexlen, v) ==
    LET c == uw_char_at(line, pos + 1)
    IN  IF i = hexlen THEN [desc |-> "", v |-> v, pos |-> pos]
        ELSE IF end_of_line(line, pos + 1)
        THEN [desc |-> "Incomplete hexadecimal value", v |-> v, pos |-> pos + 1]
        ELSE IF digit_value(c, 16) # -1
        THEN hex_digits(line, pos + 1, i + 1, hexlen, v * 16 + digit_value(c, 16))
        ELSE [desc |-> "Bad hexadecimal value", v |-> v, pos |-> pos + 1]

simple_escape(chr) ==
    CASE chr = "a" -> code_char(7)
      [] chr = "b" -> code_char(8)
      [] chr = "f" -> code_char(12)
      [] chr = "n" -> code_char(10)
      [] chr = "r" -> code_char(13)
      [] chr = "t" -> code_char(9)
      [] chr = "v" -> code_char(11)
      [] OTHER -> chr

\* the numeric escapes of _amw_unescape_line: the digits after \o, \x, \u, \U
numeric_escape(line, pos, esc) ==
    IF esc = "o" THEN octal_digits(line, pos + 1, 0, 0)
    ELSE hex_digits(line, pos + 1, 0,
                    IF esc = "x" THEN 2 ELSE IF esc = "u" THEN 4 ELSE 8, 0)

\* end_pos = -1 stands for an end_pos that was not written
RECURSIVE unescape_loop(_, _, _, _, _, _)
unescape_loop(p, line, line_number, quote, pos, result) ==
    LET chr == uw_char_at(line, pos)
        esc == uw_char_at(line, pos + 1)
    IN  IF pos >= uw_strlen(line)
        THEN [p |-> p, r |-> UwString(result), end_pos |-> pos]
        ELSE IF chr = quote
        THEN [p |-> p, r |-> UwString(result), end_pos |-> pos]
        ELSE IF chr # "\\"
        THEN unescape_loop(p, line, line_number, quote, pos + 1, Append(result, chr))
        ELSE IF end_of_line(line, pos + 1)
        THEN [p |-> p, r |-> UwOK, end_pos |-> -1]
        ELSE IF esc \in {"'", "\"", "?", "\\", "a", "b", "f", "n", "r", "t", "v"}
        THEN unescape_loop(p, line, line_number, quote, pos + 2,
                           Append(result, simple_escape(esc)))
        ELSE IF esc \in {"o", "x", "u", "U"}
        THEN With(numeric_escape(line, pos, esc), LAMBDA num :
               IF num.desc # ""
               THEN _amw_parser_error(p, line_number, num.pos, num.desc)
                        @@ [end_pos |-> -1]
               ELSE unescape_loop(p, line, line_number, quote, num.pos + 1,
                                  Append(result, code_char(num.v))))
        ELSE unescape_loop(p, line, line_number, quote, pos + 2,
                           result \o <<"\\", esc>>)

\* _amw_unescape_line as it would be if it skipped the spaces at start_pos
unescape_line_after_spaces(p, line, line_number, quote, start_pos) ==
    unescape_loop(p, line, line_number, quote,
                  uw_string_skip_spaces(line, start_pos), <<>>)

_amw_unescape_line(p, line, line_number, quote, start_pos) ==
    IF start_pos >= uw_strlen(line)
    THEN [p |-> p, r |-> UwString(<<>>), end_pos |-> start_pos]
    ELSE unescape_loop(p, line, line_number, quote, start_pos, <<>>)

\* the position after the first unescaped quote at or after start_pos, or -1
RECURSIVE find_closing_quote(_, _, _)
find_closing_quote(line, quote, start_pos) ==
    LET end_pos == uw_strchr(line, quote, start_pos)
    IN  IF end_pos = -1 THEN -1
        ELSE IF end_pos # 0 /\ uw_char_at(line, end_pos - 1) = "\\"
        THEN find_closing_quote(line, quote, end_pos + 1)
        ELSE end_pos + 1

\* the block-reading loop of parse_quoted_string when the current line holds
\* no closing quote: line is added to the block and the next line is read
RECURSIVE read_quoted_block(_, _, _, _, _)
read_quoted_line(p, quote, opening_quote_pos, lines, line_numbers) ==
    With(_amw_read_block_line(p), LAMBDA rb :
      IF _amw_end_of_block(rb.r)
      THEN [p |-> rb.p, r |-> UwOK, closing_quote_detected |-> FALSE,
            lines |-> lines, line_numbers |-> line_numbers, end_pos |-> -1]
      ELSE IF uw_error(rb.r)
      THEN [p |-> rb.p, r |-> rb.r, closing_quote_detected |-> FALSE,
            lines |-> lines, line_numbers |-> line_numbers, end_pos |-> -1]
      ELSE read_quoted_block(rb.p, quote, opening_quote_pos, lines,
                             line_numbers))

\* the block-reading loop of parse_quoted_string
read_quoted_block(p, quote, opening_quote_pos, lines, line_numbers) ==
    LET line == uw_substr(p.current_line, p.block_indent, Len(p.current_line))
        nums == Append(line_numbers, p.line_number)
        end_pos == find_closing_quote(p.current_line, quote, opening_quote_pos + 1)
    IN  IF end_pos # -1
        THEN [p |-> p, r |-> UwOK, closing_quote_detected |-> TRUE,
              lines |-> Append(lines, uw_substr(line, 0, end_pos - 1)),
              line_numbers |-> nums, end_pos |-> end_pos]
        ELSE read_quoted_line(p, quote, opening_quote_pos,
                              Append(lines, line), nums)

\* what a string value yields when it is read as an unsigned number: not the
\* number of any line
wild_line_number == -1

\* the unescape loop over the folded lines; a line's number is read from the
\* list of lines
RECURSIVE unescape_lines(_, _, _, _, _)
unescape_lines(p, lines, quote, i, done) ==
    IF i > Len(lines) THEN [p |-> p, r |-> UwList(done)]
    ELSE With(_amw_unescape_line(p, lines[i], wild_line_number, quote, 0),
              LAMBDA un :
                IF uw_error(un.r) THEN [p |-> un.p, r |-> un.r]
                ELSE unescape_lines(un.p, lines, quote, i + 1,
                                    Append(done, un.r)))

\* uw_list_join over values: defined for strings only
join_values(sep, items) ==
    IF \A i \in 1..Len(items) : uw_is_string(items[i])
    THEN UwString(uw_list_join(sep, [i \in 1..Len(items) |-> items[i].v]))
    ELSE [t |-> "undefined", what |-> "uw_list_join of a list holding a status"]

\* parse_quoted_string after the block is read: fold and unescape its lines
fold_quoted_lines(q, quote, lines, end_pos) ==
    With(drop_empty(uw_list_dedent(lines)), LAMBDA folded :
      IF Len(folded) = 0
      THEN [p |-> q, r |-> UwString(<<>>), end_pos |-> end_pos]
      ELSE With(unescape_lines(q, folded, quote, 1, <<>>), LAMBDA un :
             IF uw_error(un.r) THEN [p |-> un.p, r |-> un.r, end_pos |-> end_pos]
             ELSE [p |-> un.p, r |-> join_values(" ", un.r.v),
                   end_pos |-> end_pos]))

\* parse_quoted_string when the opening line holds no closing quote
quoted_block_body(p, quote, opening_quote_pos) ==
    With(read_quoted_block(
             Logged([p EXCEPT !.block_indent = opening_quote_pos + 1],
                    <<"enter", opening_quote_pos + 1, p.block_indent,
                      "parse_quoted_string", p.blocklevel>>),
             quote, opening_quote_pos, <<>>, <<>>), LAMBDA blk :
      With([blk.p EXCEPT !.block_indent = p.block_indent], LAMBDA q :
        IF uw_error(blk.r) THEN [p |-> blk.p, r |-> blk.r, end_pos |-> -1]
        ELSE IF blk.closing_quote_detected
        THEN fold_quoted_lines(q, quote, blk.lines, blk.end_pos)
        ELSE IF q.current_indent = opening_quote_pos
                /\ ~q.line_valid /\ q.null_line = "abort"
        THEN Aborted(q) @@ [end_pos |-> -1]
        ELSE IF ~(q.current_indent = opening_quote_pos
                  /\ uw_char_at(q.current_line, q.current_indent) = quote)
        THEN parser_error(q, q.current_indent, "String contains no closing quote")
                 @@ [end_pos |-> -1]
        ELSE fold_quoted_lines(q, quote, blk.lines, opening_quote_pos + 1)))

\* parse_quoted_string when the opening line holds no closing quote; a return
\* is noted in the history unless the process has stopped
parse_quoted_block(p, quote, opening_quote_pos) ==
    With(quoted_block_body(p, quote, opening_quote_pos), LAMBDA out :
      IF out.r = UwError("ABORT") THEN out
      ELSE [out EXCEPT !.p = Left(p, out.p)])

parse_quoted_string(p, opening_quote_pos) ==
    LET quote == uw_char_at(p.current_line, opening_quote_pos)
        first_end == find_closing_quote(p.current_line, quote, opening_quote_pos + 1)
    IN  IF first_end # -1
        THEN [end_pos |-> first_end]
             @@ _amw_unescape_line(p, p.current_line, p.line_number, quote,
                                   opening_quote_pos + 1)
        ELSE parse_quoted_block(p, quote, opening_quote_pos)


\* ------------------------------------------------------- values and blocks

\* is_kv_separator hands parse_convspec the colon itself as the opening colon
is_kv_separator(p, colon_pos) ==
    LET chr == uw_char_at(p.current_line, colon_pos + 1)
    IN  IF end_of_line(p.current_line, colon_pos + 1) THEN TRUE
        ELSE IF uw_isspace(chr) THEN TRUE
        ELSE IF chr # ":" THEN FALSE
        ELSE uw_is_string(parse_convspec(p, colon_pos).r)

RECURSIVE parse_value(_, _)
RECURSIVE call_parser_func(_, _)
RECURSIVE parse_nested_block(_, _, _)
RECURSIVE parse_nested_block_from_next_line(_, _)
RECURSIVE parse_list_loop(_, _, _)
RECURSIVE parse_map_loop(_, _, _, _, _)
RECURSIVE parse_map(_, _, _)
RECURSIVE parse_literal_string_or_map(_)
RECURSIVE check_value_end(_, _, _, _)

value_parser_func(p) ==
    With(parse_value(p, FALSE), LAMBDA pv : [p |-> pv.p, r |-> pv.r])

\* a call through an AmwBlockParserFunc pointer
call_parser_func(p, parser_func) ==
    CASE parser_func = "value_parser_func" -> value_parser_func(p)
      [] parser_func = "parse_raw_value" -> parse_raw_value(p)
      [] parser_func = "parse_literal_string" -> parse_literal_string(p)
      [] parser_func = "parse_folded_string" -> parse_folded_string(p)
      [] parser_func = "parse_isodate" -> parse_isodate(p)
      [] parser_func = "parse_timestamp" -> parse_timestamp(p)
      [] parser_func = "_amw_json_parser_func" -> _amw_json_parser_func(p)
      [] parser_func = "_amw_read_block" -> _amw_read_block(p)

\* the parser as parse_nested_block hands it to parser_func
enter_nested_block(p, block_pos, parser_func) ==
    Logged([p EXCEPT !.blocklevel = @ + 1, !.block_indent = block_pos],
           <<"enter", block_pos, p.block_indent, parser_func, p.blocklevel + 1>>)

\* parse_nested_block where the block may not be entered
too_many_nested_blocks(p) ==
    With(parser_error(p, p.current_indent, "Too many nested blocks"), LAMBDA e :
      [p |-> Left(p, e.p), r |-> e.r])

\* parse_nested_block as it would be if it dropped the error of the parser
\* it calls and handed back a null value in its place
parse_nested_block_dropping_error(p, block_pos, parser_func) ==
    IF p.blocklevel >= p.max_blocklevel
    THEN too_many_nested_blocks(p)
    ELSE With(call_parser_func(enter_nested_block(p, block_pos, parser_func),
                               parser_func), LAMBDA res :
           [p |-> Left(p, [res.p EXCEPT !.block_indent = p.block_indent,
                                        !.blocklevel = @ - 1]),
            r |-> IF uw_error(res.r) THEN UwNull ELSE res.r])

\* parse_nested_block as it would be if it let one level more be entered
parse_nested_block_past_cap(p, block_pos, parser_func) ==
    IF p.blocklevel > p.max_blocklevel
    THEN too_many_nested_blocks(p)
    ELSE With(call_parser_func(enter_nested_block(p, block_pos, parser_func),
                               parser_func), LAMBDA res :
           [p |-> Left(p, [res.p EXCEPT !.block_indent = p.block_indent,
                                        !.blocklevel = @ - 1]),
            r |-> res.r])

parse_nested_block(p, block_pos, parser_func) ==
    IF p.blocklevel >= p.max_blocklevel
    THEN too_many_nested_blocks(p)
    ELSE With(call_parser_func(enter_nested_block(p, block_pos, parser_func),
                               parser_func), LAMBDA res :
           [p |-> Left(p, [res.p EXCEPT !.block_indent = p.block_indent,
                                        !.blocklevel = @ - 1]),
            r |-> res.r])

\* parse_nested_block_from_next_line where no line of the block is read
no_nested_block(p, q, status) ==
    IF _amw_end_of_block(status)
    THEN With(parser_error(q, q.current_indent, "Empty block"), LAMBDA e :
           [p |-> Left(p, e.p), r |-> e.r])
    ELSE [p |-> Left(p, q), r |-> status]

\* parse_nested_block_from_next_line as it would be if it left the block
\* indent raised by one when it finds no line of the block
from_next_line_keeping_indent(p, parser_func) ==
    With(_amw_read_block_line([p EXCEPT !.block_indent = @ + 1]), LAMBDA rb :
      IF uw_error(rb.r) THEN no_nested_block(p, rb.p, rb.r)
      ELSE parse_nested_block(
               Logged([rb.p EXCEPT !.block_indent = @ - 1],
                      <<"from_next_line", parser_func>>),
               rb.p.block_indent, parser_func))

parse_nested_block_from_next_line(p, parser_func) ==
    With(_amw_read_block_line([p EXCEPT !.block_indent = @ + 1]), LAMBDA rb :
      With([rb.p EXCEPT !.block_indent = @ - 1], LAMBDA q :
        IF uw_error(rb.r) THEN no_nested_block(p, q, rb.r)
        ELSE parse_nested_block(Logged(q, <<"from_next_line", parser_func>>),
                                q.block_indent + 1, parser_func)))

\* the value of a list item or of a map key: the nested block at block_pos of
\* the current line, or from the next line on when nothing but a comment
\* follows next_pos on the current line
parse_nested_value(p, next_pos, block_pos) ==
    IF comment_or_end_of_line(p, next_pos)
    THEN parse_nested_block_from_next_line(p, "value_parser_func")
    ELSE parse_nested_block(p, block_pos, "value_parser_func")

\* parse_list's loop as it would be without the check of the item's column
parse_list_loop_any_column(p, item_indent, result) ==
    IF ~isspace_or_eol_at(p.current_line, item_indent + 1)
    THEN parser_error(p, item_indent, "Bad list item")
    ELSE With(parse_nested_value(p, item_indent + 1, item_indent + 2), LAMBDA item :
      IF uw_error(item.r) THEN item
      ELSE With(_amw_read_block_line(item.p), LAMBDA rb :
        With(Logged(rb.p, <<"item_line", rb.p.current_indent, item_indent>>),
             LAMBDA q :
          IF _amw_end_of_block(rb.r)
          THEN [p |-> rb.p, r |-> UwList(Append(result, item.r))]
          ELSE IF uw_error(rb.r) THEN rb
          ELSE parse_list_loop(q, q.current_indent, Append(result, item.r)))))

parse_list_loop(p, item_indent, result) ==
    IF ~isspace_or_eol_at(p.current_line, item_indent + 1)
    THEN parser_error(p, item_indent, "Bad list item")
    ELSE With(parse_nested_value(p, item_indent + 1, item_indent + 2), LAMBDA item :
      IF uw_error(item.r) THEN item
      ELSE With(_amw_read_block_line(item.p), LAMBDA rb :
        With(Logged(rb.p, <<"item_line", rb.p.current_indent, item_indent>>),
             LAMBDA q :
          IF _amw_end_of_block(rb.r)
          THEN [p |-> rb.p, r |-> UwList(Append(result, item.r))]
          ELSE IF uw_error(rb.r) THEN rb
          ELSE IF q.current_indent # item_indent
          THEN parser_error(q, q.current_indent, "Bad indentation of list item")
          ELSE parse_list_loop(q, item_indent, Append(result, item.r)))))

\* parse_list as it would be if it took the block indent for the item column
parse_list_at_block_indent(p) == parse_list_loop(p, p.block_indent, <<>>)

parse_list(p) == parse_list_loop(p, get_start_position(p), <<>>)

\* parse_map's loop after a value is stored and a further line of the block
\* is read: q holds that line, which is to start with the next key; a key
\* that parse_value returns is noted in the history with the position written
\* to value_pos (-1: none) and the line the key was parsed from
parse_map_next_key(q, key_indent, value_pos, pairs) ==
    IF q.current_indent # key_indent
    THEN parser_error(q, q.current_indent, "Bad indentation of map key")
    ELSE With(parse_value(q, TRUE), LAMBDA k :
           IF uw_error(k.r) THEN [p |-> k.p, r |-> k.r]
           ELSE parse_map_loop(Logged(k.p, <<"key", k.r, k.nested_value_pos,
                                             q.current_line>>),
                               key_indent, k.r,
                               IF k.nested_value_pos = -1 THEN value_pos
                               ELSE k.nested_value_pos,
                               pairs))

parse_map_loop(p, key_indent, key, value_pos, result) ==
    IF ~p.line_valid /\ p.null_line = "abort" THEN Aborted(p)
    ELSE With(parse_nested_value(p, value_pos, value_pos), LAMBDA value :
      IF uw_error(value.r) THEN value
      ELSE With(_amw_read_block_line(value.p), LAMBDA rb :
        IF _amw_end_of_block(rb.r)
        THEN [p |-> rb.p, r |-> UwMap(uw_map_update(result, key, value.r))]
        ELSE IF uw_error(rb.r) THEN rb
        ELSE parse_map_next_key(
                 Logged(rb.p, <<"key_line", rb.p.current_indent, key_indent>>),
                 key_indent, value_pos, uw_map_update(result, key, value.r))))

\* parse_map as it would be if it took the list of the first key for the key
parse_map_keyed_by_list(p, first_key, value_pos) ==
    parse_map_loop(p, get_start_position(p), UwList(<<first_key>>), value_pos,
                   <<>>)

parse_map(p, first_key, value_pos) ==
    parse_map_loop(p, get_start_position(p), first_key, value_pos, <<>>)

parse_literal_string_or_map(p) ==
    LET start_pos == get_start_position(p)
        colon_pos == uw_strchr(p.current_line, ":", start_pos)
    IN  IF colon_pos # -1 /\ is_kv_separator(p, colon_pos)
        THEN parse_map(p, UwString(uw_string_trim(
                              uw_substr(p.current_line, start_pos, colon_pos))),
                       colon_pos + 2)
        ELSE parse_literal_string(p)

\* check_value_end where nothing is left to parse on the current line: read
\* the next line and return the value
read_line_after_value(p, value) ==
    With(_amw_read_block_line(p), LAMBDA rb :
      IF ~_amw_end_of_block(rb.r) /\ uw_error(rb.r)
      THEN [p |-> rb.p, r |-> rb.r, nested_value_pos |-> -1]
      ELSE [p |-> rb.p, r |-> value, nested_value_pos |-> -1])

\* nested_value_pos = -1 in the result: *nested_value_pos was not written
check_value_end(p, value, end_pos0, key_expected) ==
    LET end_pos == uw_string_skip_spaces(p.current_line, end_pos0)
        chr == uw_char_at(p.current_line, end_pos)
    IN  IF uw_error(value) THEN [p |-> p, r |-> value, nested_value_pos |-> -1]
        ELSE IF end_of_line(p.current_line, end_pos)
        THEN IF key_expected
             THEN parser_error(p, end_pos, "Map key expected")
                      @@ [nested_value_pos |-> -1]
             ELSE read_line_after_value(p, value)
        ELSE IF chr = ":"
        THEN IF is_kv_separator(p, end_pos)
             THEN IF key_expected
                  THEN [p |-> p, r |-> value, nested_value_pos |-> end_pos + 1]
                  ELSE parse_map(p, value, end_pos + 2) @@ [nested_value_pos |-> -1]
             ELSE parser_error(p, end_pos + 1, "Bad character encountered")
                      @@ [nested_value_pos |-> -1]
        ELSE IF chr # AMW_COMMENT
        THEN parser_error(p, end_pos, "Bad character encountered")
                 @@ [nested_value_pos |-> -1]
        ELSE read_line_after_value(p, value)

\* parse_value where the first character is a colon
parse_value_colon(p, start_pos, key_expected) ==
    IF key_expected
    THEN parser_error(p, start_pos,
                      "Map key expected and it cannot start with colon")
    ELSE With(parse_convspec(p, start_pos), LAMBDA cs :
           IF ~uw_is_string(cs.r) THEN parse_literal_string(p)
           ELSE IF end_of_line(p.current_line, cs.end_pos)
           THEN parse_nested_block_from_next_line(p, get_custom_parser(p, cs.r.v))
           ELSE parse_nested_block(p, cs.end_pos, get_custom_parser(p, cs.r.v)))

\* parse_value where the first character is a double quote, after
\* parse_quoted_string: start_line is the line the string opens on
after_quoted_string(str, start_line, key_expected) ==
    IF uw_error(str.r) THEN [p |-> str.p, r |-> str.r, end_pos |-> -1]
    ELSE IF str.p.line_number = start_line THEN str
    ELSE IF comment_or_end_of_line(str.p, str.end_pos)
    THEN [p |-> str.p, r |-> str.r, end_pos |-> -1]
    ELSE parser_error(str.p, str.end_pos, "Bad character after quoted string")
             @@ [end_pos |-> -1]

\* the values of parse_value that may be map keys: what the first characters
\* of the value at start_pos make it.  kind "scalar" goes on to
\* check_value_end with the value r that ends before end_pos, kind "return"
\* is returned as it is, kinds "list" and "literal" go on to parse_list and
\* parse_literal_string_or_map
first_token(p, start_pos, key_expected) ==
    LET line == p.current_line
        chr == uw_char_at(line, start_pos)
        next_chr == uw_char_at(line, start_pos + 1)
        keyword(len, word, value) ==
            IF uw_substring_eq(line, start_pos, start_pos + len, word)
            THEN [kind |-> "scalar", p |-> p, r |-> value,
                  end_pos |-> start_pos + len]
            ELSE [kind |-> "none"]
        null_value == keyword(4, <<"n", "u", "l", "l">>, UwNull)
        true_value == keyword(4, <<"t", "r", "u", "e">>, UwBool(TRUE))
        false_value == keyword(5, <<"f", "a", "l", "s", "e">>, UwBool(FALSE))
    IN  IF chr = "-"
        THEN IF is_dec_digit(next_chr)
             THEN [kind |-> "number", pos |-> start_pos + 1, sign |-> -1]
             ELSE IF isspace_or_eol_at(line, start_pos + 1)
             THEN IF key_expected
                  THEN [kind |-> "return"]
                       @@ parser_error(p, start_pos,
                                       "Map key expected and it cannot be a list")
                  ELSE [kind |-> "list"]
             ELSE [kind |-> "literal"]
        ELSE IF chr = "\"" THEN [kind |-> "quoted"]
        ELSE IF null_value.kind = "scalar" THEN null_value
        ELSE IF true_value.kind = "scalar" THEN true_value
        ELSE IF false_value.kind = "scalar" THEN false_value
        ELSE IF chr = "+" /\ is_dec_digit(next_chr)
        THEN [kind |-> "number", pos |-> start_pos + 1, sign |-> 1]
        ELSE IF is_dec_digit(chr)
        THEN [kind |-> "number", pos |-> start_pos, sign |-> 1]
        ELSE [kind |-> "literal"]

parse_value(p, key_expected) ==
    LET start_pos == get_start_position(p)
    IN  IF uw_char_at(p.current_line, start_pos) = ":"
        THEN parse_value_colon(p, start_pos, key_expected) @@ [nested_value_pos |-> -1]
        ELSE With(first_token(p, start_pos, key_expected), LAMBDA tok :
          CASE tok.kind = "list" -> parse_list(p) @@ [nested_value_pos |-> -1]
            [] tok.kind = "literal" ->
                 parse_literal_string_or_map(p) @@ [nested_value_pos |-> -1]
            [] tok.kind = "return" ->
                 [p |-> tok.p, r |-> tok.r, nested_value_pos |-> -1]
            [] OTHER ->
                 With(CASE tok.kind = "number" ->
                             _amw_parse_number(p, tok.pos, tok.sign)
                        [] tok.kind = "quoted" ->
                             after_quoted_string(
                                 parse_quoted_string(p, start_pos),
                                 p.line_number, key_expected)
                        [] OTHER -> tok,
                      LAMBDA v :
                        IF v.end_pos = -1
                        THEN [p |-> v.p, r |-> v.r, nested_value_pos |-> -1]
                        ELSE check_value_end(v.p, v.r, v.end_pos, key_expected)))
\* --------------------------------------------------------------- documents

Spaces(n) == [i \in 1..n |-> " "]
Indented(n, text) == Spaces(n) \o text
CommentLine == <<"#", " ", "c">>

\* every document of up to MaxLines lines over a small alphabet of line shapes
FreeBodies == {<<"-", " ", "1">>, <<"a", ":", " ", "1">>, <<"b", ":">>, CommentLine, <<"1">>}
FreeLines == {<<>>} \cup {Indented(n, b) : n \in 0..MaxIndent, b \in FreeBodies}
FreeDocs == UNION {[1..n -> FreeLines] : n \in 1..MaxLines}

\* single-line scalars, one per rule of the type deduction
ScalarIds == {"int", "bool", "quoted", "literal"}
ScalarText(id) ==
    CASE id = "int" -> <<"1">>
      [] id = "bool" -> <<"t", "r", "u", "e">>
      [] id = "quoted" -> <<"\"", "x", "\"">>
      [] OTHER -> <<"y">>
ScalarValue(id) ==
    CASE id = "int" -> UwSigned(1)
      [] id = "bool" -> UwBool(TRUE)
      [] id = "quoted" -> UwString(<<"x">>)
      [] OTHER -> UwString(<<"y">>)

\* a list of scalars with every hyphen at column k
ListDoc(k, ids) ==
    [i \in 1..Len(ids) |-> Indented(k, <<"-", " ">> \o ScalarText(ids[i]))]
ListValue(ids) == UwList([i \in 1..Len(ids) |-> ScalarValue(ids[i])])

\* a map of scalars under distinct literal keys k1, k2, ... at column k,
\* after nc comment lines
KeyText(i) == <<"k", DecDigits[i + 1]>>
FlatMapDoc(k, nc, ids) ==
    [i \in 1..nc |-> CommentLine]
    \o [i \in 1..Len(ids) |->
          Indented(k, KeyText(i) \o <<":", " ">> \o ScalarText(ids[i]))]
FlatMapValue(ids) ==
    UwMap([i \in 1..Len(ids) |-> <<UwString(KeyText(i)), ScalarValue(ids[i])>>])

\* a key that ends its line, and a map of n entries at column j below it
NestedMapDoc(j, n) ==
    <<<<"r", ":">>>> \o [i \in 1..n |-> Indented(j, KeyText(i) \o <<":", " ", "1">>)]
NestedMapValue(n) ==
    UwMap(<< <<UwString(<<"r">>),
               UwMap([i \in 1..n |-> <<UwString(KeyText(i)), UwSigned(1)>>])>> >>)

\* what the three block-string policies make of the lines of a block
RawOf(lines) ==
    uw_list_join("\n", IF Len(lines) > 1 THEN Append(lines, <<>>) ELSE lines)
LiteralOf(lines) == RawOf(drop_trailing_empty(uw_list_dedent(lines)))
FoldedOf(lines) == uw_list_join(" ", drop_empty(uw_list_dedent(lines)))
ConvValue(name, lines) ==
    UwString(CASE name = RAW -> RawOf(lines)
               [] name = LITERAL -> LiteralOf(lines)
               [] OTHER -> FoldedOf(lines))

BlockTexts == {<<"a", "b">>, <<"c", "d">>}

\* a specifier with text after it on its line, continuation lines aligned
\* with that text
ConvInlineDoc(name, gap, texts) ==
    LET lead == <<":">> \o name \o <<":">> \o Spaces(gap)
    IN  [i \in 1..Len(texts) |->
          IF i = 1 THEN lead \o texts[1] ELSE Indented(Len(lead), texts[i])]

\* a specifier alone on its line, the block below it at indents 1 and more
ConvAloneDoc(name, indents, texts) ==
    <<<<":">> \o name \o <<":">>>>
    \o [i \in 1..Len(texts) |-> Indented(indents[i], texts[i])]
ConvAloneBlock(indents, texts) ==
    [i \in 1..Len(texts) |-> Indented(indents[i] - 1, texts[i])]

\* a quoted string opening at column q and closing on a later line; c holds
\* the text between the quotes, line by line
QuotedContents == {<<>>, <<"a">>, <<" ", "b">>}
QuotedDoc(q, c) ==
    [i \in 1..Len(c) |->
       IF i = 1 THEN Indented(q, <<"\"">> \o c[1])
       ELSE IF i = Len(c) THEN Indented(q + 1, c[i] \o <<"\"">>)
       ELSE Indented(q + 1, c[i])]
QuotedValue(c) == UwString(FoldedOf(c))

\* a single-line scalar followed by m more lines of data at column e
ExtraBodies == {<<"z">>, <<"-", " ", "1">>, <<"a", ":", " ", "1">>}
ExtraDoc(top, e, body, m) ==
    <<ScalarText(top)>> \o [i \in 1..m |-> Indented(e, body)]

\* the end-to-end scenarios
DocScalar == <<<<"4", "2">>>>
DocMapWithComment == <<<<"#", " ", "g", "r", "e", "e", "t", "i", "n", "g">>, <<"g", "r", "e", "e", "t", "i", "n", "g", ":", " ", "H", "e", "l", "l", "o">>, <<"c", "o", "u", "n", "t", ":", " ", "3">>>>
DocList == <<<<"-", " ", "1">>, <<"-", " ", "t", "r", "u", "e">>, <<"-", " ", "\"", "x", "\"">>>>
DocLiteralInline == <<<<":", "l", "i", "t", "e", "r", "a", "l", ":", " ", " ", "a", "b", "c">>, Indented(11, <<"d", "e", "f">>)>>
DocQuotedFolded == <<<<"\"", "a">>, <<" ", "b">>, <<" ", "c", "\"">>>>
DocNestedMap ==
    <<<<"r", "o", "o", "t", ":">>, <<" ", " ", " ", " ", "a", ":", " ", "1">>, <<" ", " ", " ", " ", "b", ":">>, <<" ", " ", " ", " ", " ", " ", " ", " ", "c", ":", " ", "2">>>>
ValueMapWithComment ==
    UwMap(<< <<UwString(<<"g", "r", "e", "e", "t", "i", "n", "g">>), UwString(<<"H", "e", "l", "l", "o">>)>>,
             <<UwString(<<"c", "o", "u", "n", "t">>), UwSigned(3)>> >>)
ValueList == UwList(<<UwSigned(1), UwBool(TRUE), UwString(<<"x">>)>>)
ValueNestedMap ==
    UwMap(<< <<UwString(<<"r", "o", "o", "t">>),
               UwMap(<< <<UwString(<<"a">>), UwSigned(1)>>,
                        <<UwString(<<"b">>),
                          UwMap(<< <<UwString(<<"c">>), UwSigned(2)>> >>)>> >>)>> >>)

\* documents that parse, the lines after which a comment may be inserted
\* between two blocks or after the last one, and their values
BaseIds == {"scalar", "list", "quoted", "literal"}
BaseDoc(id) ==
    CASE id = "scalar" -> DocScalar
      [] id = "list" -> DocList
      [] id = "quoted" -> DocQuotedFolded
      [] OTHER -> <<<<"a", "b", "c">>>>
BaseValue(id) ==
    CASE id = "scalar" -> UwSigned(42)
      [] id = "list" -> ValueList
      [] id = "quoted" -> UwString(<<"a", " ", "b", " ", "c">>)
      [] OTHER -> UwString(<<"a", "b", "c">>)
BaseInsertAt(id) == IF id = "list" THEN 1..3 ELSE {Len(BaseDoc(id))}
CommentedDoc(d, at, j) ==
    SubSeq(d, 1, at) \o [i \in 1..j |-> CommentLine] \o SubSeq(d, at + 1, Len(d))

\* n items (keys) at the given columns, each left of the column where the
\* block of the item (value) before it starts, which is two columns right of
\* the hyphen (of a one-character key), and at least one off the first column
MisalignedColumns(n) ==
    {cols \in [1..n -> 0..(MaxIndent + 1)] :
        /\ cols[1] <= MaxIndent
        /\ \A i \in 1..n : cols[i] < cols[1] + 2
        /\ \E i \in 1..n : cols[i] # cols[1]}
FirstMisaligned(cols) ==
    CHOOSE i \in 1..Len(cols) :
        cols[i] # cols[1] /\ \A j \in 1..(i - 1) : cols[j] = cols[1]
MisalignedDoc(kind, cols) ==
    [i \in 1..Len(cols) |->
       Indented(cols[i], IF kind = "list" THEN <<"-", " ", "1">>
                         ELSE <<DecDigits[i + 1]>> \o <<":", " ", "1">>)]
BadIndentation(kind, cols) ==
    [t |-> "status", code |-> "PARSE_ERROR",
     line_number |-> FirstMisaligned(cols),
     position |-> cols[FirstMisaligned(cols)],
     desc |-> IF kind = "list" THEN "Bad indentation of list item"
              ELSE "Bad indentation of map key"]

\* what the string library may do when handed the destroyed current line
NullLinePolicies == {"abort", "empty"}

\* ------------------------------------------------------------ the program

\* doc is the markup handed to amw_parse and scn says which family of
\* documents it comes from and, for the families with a known outcome, the
\* outcome the markup's description promises; neither ever changes.
VARIABLES doc, scn, parser, pc, result

vars == <<doc, scn, parser, pc, result>>

Start(d, kind, expect) ==
    /\ doc = d
    /\ scn = [kind |-> kind, expect |-> expect]

InitFree == \E d \in FreeDocs : Start(d, "free", UwNull)

InitList ==
    \E k \in 0..MaxIndent, n \in 1..MaxLines : \E ids \in [1..n -> ScalarIds] :
        Start(ListDoc(k, ids), "list", ListValue(ids))

InitFlatMap ==
    \/ Start(DocMapWithComment, "flatmap", ValueMapWithComment)
    \/ \E k \in 0..MaxIndent, nc \in 0..1, n \in 2..MaxLines :
         \E ids \in [1..n -> ScalarIds] :
            Start(FlatMapDoc(k, nc, ids), "flatmap", FlatMapValue(ids))

InitNestedMap ==
    \/ Start(DocNestedMap, "nestedmap", ValueNestedMap)
    \/ \E j \in 1..(MaxIndent + 1), n \in 1..MaxLines :
         Start(NestedMapDoc(j, n), "nestedmap", NestedMapValue(n))

InitConvInline ==
    \/ Start(DocLiteralInline, "convinline", UwString(<<"a", "b", "c">> \o <<"\n">> \o <<"d", "e", "f">> \o <<"\n">>))
    \/ \E name \in {LITERAL, FOLDED}, gap \in 1..2, n \in 1..MaxLines :
         \E texts \in [1..n -> BlockTexts] :
            Start(ConvInlineDoc(name, gap, texts), "convinline",
                  ConvValue(name, texts))

InitConvAlone ==
    \E name \in {RAW, LITERAL, FOLDED}, n \in 1..(MaxLines - 1) :
      \E indents \in [1..n -> 1..(MaxIndent + 1)], texts \in [1..n -> BlockTexts] :
         Start(ConvAloneDoc(name, indents, texts), "convalone",
               ConvValue(name, ConvAloneBlock(indents, texts)))

InitQuoted ==
    \/ Start(DocQuotedFolded, "quoted", UwString(<<"a", " ", "b", " ", "c">>))
    \/ \E q \in 0..MaxIndent, n \in 2..MaxLines :
         \E c \in [1..n -> QuotedContents] :
            Start(QuotedDoc(q, c), "quoted", QuotedValue(c))

InitExtra ==
    \E top \in ScalarIds \ {"literal"}, e \in 0..MaxIndent,
       body \in ExtraBodies, m \in 1..(MaxLines - 1) :
          Start(ExtraDoc(top, e, body, m), "extra", UwNull)

InitCommented ==
    \E id \in BaseIds, j \in 0..(MaxLines - 1) : \E at \in BaseInsertAt(id) :
        Start(CommentedDoc(BaseDoc(id), at, j), "commented", BaseValue(id))

InitMisaligned ==
    \E kind \in {"list", "map"}, n \in 2..MaxLines :
      \E cols \in MisalignedColumns(n) :
         Start(MisalignedDoc(kind, cols), "misaligned",
               BadIndentation(kind, cols))

Init ==
    /\ \/ InitFree
       \/ InitList
       \/ InitFlatMap
       \/ InitNestedMap
       \/ InitConvInline
       \/ InitConvAlone
       \/ InitQuoted
       \/ InitExtra
       \/ InitCommented
       \/ InitMisaligned
    /\ parser = amw_create_parser(doc, "unset")
    /\ pc = "start"
    /\ result = UwNull

\* amw_parse: read the first line, to prepare for parsing and to detect EOF
ReadFirstLine ==
    /\ pc = "start"
    /\ LET rb == _amw_read_block_line(parser)
       IN  /\ parser' = rb.p
           /\ IF _amw_end_of_block(rb.r) /\ rb.p.eof
              THEN result' = UwError("EOF") /\ pc' = "done"
              ELSE IF uw_error(rb.r)
              THEN result' = rb.r /\ pc' = "done"
              ELSE result' = result /\ pc' = "parse"
    /\ UNCHANGED <<doc, scn>>

\* amw_parse: parse the top-level value
ParseTopLevel ==
    /\ pc = "parse"
    /\ \E null_line \in NullLinePolicies :
         With(value_parser_func([parser EXCEPT !.null_line = null_line]),
              LAMBDA res :
                /\ parser' = [res.p EXCEPT !.null_line = "unset"]
                /\ result' = res.r
                /\ pc' = IF uw_error(res.r) THEN "done" ELSE "check")
    /\ UNCHANGED <<doc, scn>>

\* amw_parse: make sure the markup has no more data
CheckNoMoreData ==
    /\ pc = "check"
    /\ LET rb == _amw_read_block_line(parser)
           err == parser_error(rb.p, rb.p.current_indent,
                               "Extra data after parsed value")
       IN  IF rb.p.eof
           THEN parser' = rb.p /\ result' = result
           ELSE IF uw_error(rb.r)
           THEN parser' = rb.p /\ result' = rb.r
           ELSE parser' = err.p /\ result' = err.r
    /\ pc' = "done"
    /\ UNCHANGED <<doc, scn>>

Next == ReadFirstLine \/ ParseTopLevel \/ CheckNoMoreData

Spec == Init /\ [][Next]_vars

\* ------------------------------------------------------------- properties

Done == pc = "done"
ParseError(v, description) ==
    v.t = "status" /\ v.code = "PARSE_ERROR" /\ v.desc = description
Events == 1..Len(parser.log)
Event(i) == parser.log[i]

\* C1: a root block of N >= 2 lines `key: scalar` with distinct literal keys
\* at one column, comment lines before it or not, parses to the map of its N
\* entries in source order; `# greeting` / `greeting: Hello` / `count: 3`
\* parses to {"greeting": "Hello", "count": 3}.
C1_FlatMapParsed == (scn.kind = "flatmap" /\ Done) => result = scn.expect

\* C2: a key that ends its line takes the indented map on the following lines
\* as its value, each key landing in the map of its own level; `root:` /
\* `    a: 1` / `    b:` / `        c: 2` parses to
\* {"root": {"a": 1, "b": {"c": 2}}}.
C2_NestedMapParsed == (scn.kind = "nestedmap" /\ Done) => result = scn.expect

\* C3: a root block of N lines `- scalar` with every hyphen at one column
\* parses to the list of the N scalars in source order, each typed by the
\* deduction rules; `- 1` / `- true` / `- "x"` parses to [1, true, "x"].
C3_ListParsed == (scn.kind = "list" /\ Done) => result = scn.expect

C3_ListOfThreeParsed ==
    /\ scn.kind = "list" /\ Done
    /\ doc = DocList
    /\ result = ValueList

\* C4: with text after a registered specifier on its line, the block handed
\* to the specifier's parser starts after the specifier, closing colon
\* excluded, and continuation lines aligned with the text belong to it;
\* `:literal:  abc` with `def` under `abc` parses to "abc\ndef\n".
C4_ConvspecInlineBlock ==
    (scn.kind = "convinline" /\ Done) => result = scn.expect

\* C5: a quoted string that closes on a later line than it opens is its
\* non-empty lines, dedented and unescaped, joined by one space, without the
\* quotes; `"a` / ` b` / ` c"` parses to "a b c".
C5_QuotedFolded == (scn.kind = "quoted" /\ Done) => result = scn.expect

\* C6: data on a line after the top-level value makes amw_parse return the
\* error "Extra data after parsed value", also when the value is a
\* single-line scalar and exactly one more line of data follows it.
C6_ExtraDataRejected ==
    (scn.kind = "extra" /\ Done)
        => ParseError(result, "Extra data after parsed value")

\* C7: comment lines inserted between the blocks of a document or after its
\* last block, at an indent not above the block indent, change neither the
\* value the document parses to nor make it an error.
C7_CommentInvariance ==
    (scn.kind = "commented" /\ Done) => result = scn.expect

C9_FirstErrorHalts ==
    \A i \in Events :
        Event(i)[1] = "error"
            => /\ Done
               /\ result = Event(i)[2]
               /\ \A j \in Events :
                     j > i => Event(j)[1] \notin {"read", "unread", "error"}

C9_ErrorInNestedBlock ==
    /\ Done
    /\ parser.markup.pos < Len(doc)
    /\ \E i \in Events :
          /\ Event(i)[1] = "error" /\ result = Event(i)[2]
          /\ \E k \in 1..(i - 1) : Event(k)[1] = "enter"

\* C10: a registered specifier alone on its line has its parser run through
\* parse_nested_block_from_next_line: the block starts on the next line, its
\* indent is the parent's plus one, and every line of it, however much
\* deeper it is indented, belongs to the value.
C10_ConvspecAloneBlock ==
    (scn.kind = "convalone" /\ Done)
        => /\ result = scn.expect
           /\ \E i \in Events : Event(i)[1] = "from_next_line"

\* ------------------------------------------------- one-line scalar documents

\* largest number written out in the four radices
MaxNumber == 260

\* n written in the radix with the given digit characters
RECURSIVE DigitsOf(_, _, _)
DigitsOf(n, radix, digits) ==
    IF n < radix THEN <<digits[n + 1]>>
    ELSE Append(DigitsOf(n \div radix, radix, digits), digits[(n % radix) + 1])

LowerDigits == DecDigits \o LowerHex
UpperDigits == DecDigits \o UpperHex

\* the ways to write an integer: prefix, radix and digit characters
RadixForms ==
    {[prefix |-> <<>>, radix |-> 10, digits |-> LowerDigits]}
    \cup {[prefix |-> <<"0", b>>, radix |-> 2, digits |-> LowerDigits] :
             b \in {"b", "B"}}
    \cup {[prefix |-> <<"0", o>>, radix |-> 8, digits |-> LowerDigits] :
             o \in {"o", "O"}}
    \cup {[prefix |-> <<"0", x>>, radix |-> 16, digits |-> d] :
             x \in {"x", "X"}, d \in {LowerDigits, UpperDigits}}
RadixDoc(n, form) == <<form.prefix \o DigitsOf(n, form.radix, form.digits)>>

InitRadix ==
    \E n \in 0..MaxNumber, form \in RadixForms :
        Start(RadixDoc(n, form), "radix", UwSigned(n))

\* digits with a separator, or none (the empty string), in each gap
RECURSIVE Grouped(_, _)
Grouped(digits, seps) ==
    IF Len(digits) <= 1 THEN digits
    ELSE <<digits[1]>> \o (IF seps[1] = "" THEN <<>> ELSE <<seps[1]>>)
         \o Grouped(Tail(digits), Tail(seps))

\* longest integer part of a number with separators
MaxDigits == 3
GroupedDigits ==
    UNION {{d \in [1..n -> {"0", "1", "7", "9"}] : d[1] \in {"1", "9"}} :
              n \in 2..MaxDigits}
\* what follows the integer part: nothing, a fraction or an exponent
NumberTails == {"int", "frac", "exp"}
NumberTailText(tail) ==
    CASE tail = "int" -> <<>>
      [] tail = "frac" -> <<".", "5">>
      [] OTHER -> <<"e", "1">>
\* the value of the number with the separators removed
NumberValue(digits, tail) ==
    LET n == digits_value(digits, 0, Len(digits))
    IN  CASE tail = "int" -> UwSigned(n)
          [] tail = "frac" -> UwFloat(n * 10 + 5, -1)
          [] OTHER -> [t |-> "float", v |-> normal_float(n, 1)]

InitSeparators ==
    \E digits \in GroupedDigits, tail \in NumberTails :
      \E seps \in [1..(Len(digits) - 1) -> {"", "'", "_"}] :
         Start(<<Grouped(digits, seps) \o NumberTailText(tail)>>,
               "separators", NumberValue(digits, tail))

\* longest text between the quotes of a one-line quoted string
MaxStringLen == 3
\* characters that are no quote, no backslash and no line feed
StringChars == {"a", " ", "#", ":", "-"}
QuotedTexts == UNION {[1..n -> StringChars] : n \in 0..MaxStringLen}

InitRoundTrip ==
    \E s \in QuotedTexts :
        Start(<<<<"\"">> \o s \o <<"\"">>>>, "roundtrip", UwString(s))

\* numbers that start with the digit 0 and go on without a radix letter
ZeroDocs ==
    {[text |-> <<"0", ".", "5">>, value |-> UwFloat(5, -1)],
     [text |-> <<"0", ".", "2", "5">>, value |-> UwFloat(25, -2)],
     [text |-> <<"-", "0", ".", "5">>, value |-> UwFloat(-5, -1)],
     [text |-> <<"0", " ", "#", " ", "c">>, value |-> UwSigned(0)],
     [text |-> <<"0", ":", " ", "1">>,
      value |-> UwMap(<< <<UwSigned(0), UwSigned(1)>> >>)]}

InitZero == \E d \in ZeroDocs : Start(<<d.text>>, "zero", d.value)

\* values that begin with the letters of a keyword and go on
Keywords == {<<"n", "u", "l", "l">>, <<"t", "r", "u", "e">>, <<"f", "a", "l", "s", "e">>}
KeywordTails == {<<"a", "b", "l", "e">>, <<" ", "s", "t", "o", "r", "y">>, <<"1">>, <<"-", "x">>}

InitKeywordPrefix ==
    \E word \in Keywords, tail \in KeywordTails :
       \/ Start(<<word \o tail>>, "keyword", UwString(word \o tail))
       \/ Start(<<word \o tail \o <<":", " ", "1">>>>, "keyword",
                UwMap(<< <<UwString(word \o tail), UwSigned(1)>> >>))

\* the same text between single quotes as between double quotes
InitSingleQuoted ==
    \E s \in QuotedTexts :
        Start(<<<<"'">> \o s \o <<"'">>>>, "singlequoted", UwString(s))

\* the escape table: what follows the backslash and the code point it names
LiteralEscapes == {"'", "\"", "?", "\\"}
ControlEscapes ==
    {<<"a", 7>>, <<"b", 8>>, <<"f", 12>>, <<"n", 10>>, <<"r", 13>>, <<"t", 9>>,
     <<"v", 11>>}
\* code points written as numeric escapes: one, two and three octal digits
EscapedCodes == {7, 8, 65, 74}
\* n in hexadecimal, filled to the width with zeros
HexOfWidth(n, width, digits) ==
    LET hex == DigitsOf(n, 16, digits)
    IN  [i \in 1..(width - Len(hex)) |-> "0"] \o hex
EscapeCases ==
    {[text |-> <<"\\", c>>, decoded |-> c] : c \in LiteralEscapes}
    \cup {[text |-> <<"\\", e[1]>>, decoded |-> code_char(e[2])] :
             e \in ControlEscapes}
    \cup {[text |-> <<"\\", "o">> \o DigitsOf(n, 8, DecDigits),
           decoded |-> code_char(n)] : n \in EscapedCodes}
    \cup {[text |-> <<"\\", h[1]>> \o HexOfWidth(n, h[2], d),
           decoded |-> code_char(n)] :
             n \in EscapedCodes, h \in {<<"x", 2>>, <<"u", 4>>, <<"U", 8>>},
             d \in {LowerDigits, UpperDigits}}
\* what follows the escape before the closing quote: nothing, a character
\* that is no digit, a digit that is hexadecimal but not octal
EscapeFollowers == {<<>>, <<"z">>, <<"8">>}

InitEscapes ==
    \E e \in EscapeCases, f \in EscapeFollowers :
        Start(<<<<"\"">> \o e.text \o f \o <<"\"">>>>, "escapes",
              UwString(<<e.decoded>> \o f))

\* amw_parse on the one-line documents that hold a single scalar
InitScalars ==
    /\ \/ InitRadix
       \/ InitSeparators
       \/ InitRoundTrip
       \/ InitZero
       \/ InitKeywordPrefix
       \/ InitSingleQuoted
       \/ InitEscapes
    /\ parser = amw_create_parser(doc, "unset")
    /\ pc = "start"
    /\ result = UwNull

SpecScalars == InitScalars /\ [][Next]_vars

\* C14: for every integer n (here up to MaxNumber, well inside the signed
\* range) the documents n in decimal, `0b` + binary(n), `0o` + octal(n) and
\* `0x` + hex(n), prefix letter and hex digits in either case, all parse to
\* the signed integer n.
C14_RadixForms == (scn.kind = "radix" /\ Done) => result = scn.expect

C14_HexOfTwoDigitsParsed ==
    /\ scn.kind = "radix" /\ Done
    /\ doc = <<<<"0", "x", "F", "F">>>>
    /\ result = UwSigned(255)

\* C15: a well-formed number, integer or float, with `'` or `_` between
\* digits of its integer part parses to the value of the number with the
\* separators removed.
C15_SeparatorsIgnored == (scn.kind = "separators" /\ Done) => result = scn.expect

\* C16: for every string s without quote, backslash and line feed the
\* one-line document `"` + s + `"` parses to exactly s, leading, inner and
\* trailing spaces included.
C16_QuotedRoundTrip == (scn.kind = "roundtrip" /\ Done) => result = scn.expect

C16_SpacesKept ==
    /\ scn.kind = "roundtrip" /\ Done
    /\ doc = <<<<"\"", " ", "a", " ", "\"">>>>
    /\ result = UwString(<<" ", "a", " ">>)

\* C17: a number whose first digit is 0 and whose next character is no radix
\* letter is read in radix 10 from that 0 on: `0.5` is the float 0.5, and `0`
\* before a comment or a key-value separator is the integer 0.
C17_LeadingZero == (scn.kind = "zero" /\ Done) => result = scn.expect

\* C18: a value that begins with the letters null, true or false and goes on
\* with other text is a literal string, or a map when the line holds a
\* key-value separator; it is no keyword and no parse error.
C18_KeywordPrefixIsLiteral == (scn.kind = "keyword" /\ Done) => result = scn.expect

\* C19: a value that starts with a single quote is a quoted string closed by
\* a single quote, and parses to what the same text between double quotes
\* parses to.
C19_SingleQuoted == (scn.kind = "singlequoted" /\ Done) => result = scn.expect

\* C20: inside a quoted string every escape of the table decodes to its
\* code point: the simple escapes, `\o` with one, two or three octal digits
\* whatever follows the digits, and `\x`, `\u`, `\U` with exactly 2, 4 and 8
\* hexadecimal digits.
C20_EscapeTable == (scn.kind = "escapes" /\ Done) => result = scn.expect

\* ------------------------------------------- blocks, comments, blank lines

\* a quoted string opening at column q whose closing quote stands alone on
\* the line after the block, at column q; c holds the text line by line
QuotedAloneDoc(q, c) ==
    [i \in 1..(Len(c) + 1) |->
       IF i = 1 THEN Indented(q, <<"\"">> \o c[1])
       ELSE IF i <= Len(c) THEN Indented(q + 1, c[i])
       ELSE Indented(q, <<"\"">>)]

InitQuotedAlone ==
    \E q \in 0..MaxIndent, n \in 1..(MaxLines - 1) :
      \E c \in [1..n -> QuotedContents] :
         Start(QuotedAloneDoc(q, c), "quotedalone", QuotedValue(c))

\* blank lines and comment lines; a comment at column j
LeadingLines == {<<>>} \cup {Indented(j, CommentLine) : j \in 1..(MaxIndent + 1)}

\* a list item and a map value that start on the line after the hyphen (the
\* key), behind blank lines and comment lines of the nested block
LeadingDoc(opener, lead) == <<opener>> \o lead \o <<Indented(MaxIndent + 1, <<"1">>)>>

InitLeading ==
    \E n \in 1..(MaxLines - 2) : \E lead \in [1..n -> LeadingLines] :
       \/ Start(LeadingDoc(<<"-">>, lead), "leading", UwList(<<UwSigned(1)>>))
       \/ Start(LeadingDoc(<<"-", " ", "#", " ", "c">>, lead), "leading", UwList(<<UwSigned(1)>>))
       \/ Start(LeadingDoc(<<"a", ":">>, lead), "leading",
                UwMap(<< <<UwString(<<"a">>), UwSigned(1)>> >>))

\* blocks of two lines with comment lines between the two, each comment at a
\* column left of the block: a literal string as list item, a list as list
\* item, a quoted string
DedentedDoc(first, comments, last) ==
    <<first>> \o [i \in 1..Len(comments) |-> Indented(comments[i], CommentLine)]
    \o <<last>>

InitDedented ==
    \E n \in 1..(MaxLines - 2) :
       \/ \E cols \in [1..n -> 0..1] :
            \/ Start(DedentedDoc(<<"-", " ", "a", "b">>, cols, <<" ", " ", "c", "d">>), "dedented",
                     UwList(<<UwString(<<"a", "b">> \o <<"\n">> \o <<"c", "d">> \o <<"\n">>)>>))
            \/ Start(DedentedDoc(<<"-", " ", "-", " ", "1">>, cols, <<" ", " ", "-", " ", "2">>), "dedented",
                     UwList(<<UwList(<<UwSigned(1), UwSigned(2)>>)>>))
       \/ \E q \in 0..MaxIndent : \E cols \in [1..n -> 0..q] :
            Start(DedentedDoc(Indented(q, <<"\"", "a">>), cols, Indented(q + 1, <<"b", "\"">>)),
                  "dedented", UwString(<<"a", " ", "b">>))

\* a map key followed at once by a registered specifier: `key::name: text`,
\* and with the block on the next line, `key::name:` / ` text`
KeySpecKeys == {<<"a">>, <<"k", "1">>}

KeySpecDoc(key, name, text, inline) ==
    LET head == key \o <<":", ":">> \o name \o <<":">>
    IN  IF inline THEN <<head \o <<" ">> \o text>>
        ELSE <<head, Indented(1, text)>>

InitKeySpec ==
    \E key \in KeySpecKeys, name \in {RAW, LITERAL, FOLDED},
       text \in BlockTexts, inline \in BOOLEAN :
          Start(KeySpecDoc(key, name, text, inline), "keyspec",
                UwMap(<< <<UwString(key), ConvValue(name, <<text>>)>> >>))

\* the lines of a literal string: text behind 0 to MaxIndent spaces, and
\* empty lines; the first line is text
LiteralTextLines == {Indented(j, <<"a", "b">>) : j \in 0..MaxIndent}
LiteralLines == {<<>>} \cup LiteralTextLines
LiteralBlocks ==
    UNION {{b \in [1..n -> LiteralLines] : b[1] # <<>>} : n \in 1..(MaxLines + 1)}

\* the text the description of literal strings gives for the lines of a
\* block: up to the last line that is not empty, every line without the
\* spaces that all non-empty lines start with, and a line break after every
\* line unless there is one line only
LastText(b) == CHOOSE i \in 1..Len(b) : b[i] # <<>> /\ \A j \in (i + 1)..Len(b) : b[j] = <<>>
CommonIndent(b) ==
    CHOOSE n \in 0..MaxIndent :
      /\ \A i \in 1..Len(b) : b[i] # <<>> => SubSeq(b[i], 1, n) = Spaces(n)
      /\ \E i \in 1..Len(b) : b[i] # <<>> /\ b[i][n + 1] # " "
RECURSIVE LinesWithBreaks(_, _, _)
LinesWithBreaks(b, n, last) ==
    IF last = 0 THEN <<>>
    ELSE LinesWithBreaks(b, n, last - 1)
         \o SubSeq(b[last], n + 1, Len(b[last])) \o <<"\n">>
LiteralText(b) ==
    IF LastText(b) = 1 THEN SubSeq(b[1], CommonIndent(b) + 1, Len(b[1]))
    ELSE LinesWithBreaks(b, CommonIndent(b), LastText(b))

\* a literal string as the whole document, and as the one item of a list
LiteralItemDoc(b) ==
    [i \in 1..Len(b) |->
       IF i = 1 THEN <<"-", " ">> \o b[1]
       ELSE IF b[i] = <<>> THEN <<>> ELSE Indented(2, b[i])]

InitLiteral ==
    \E b \in LiteralBlocks :
       \/ Start(b, "literal", UwString(LiteralText(b)))
       \/ Start(LiteralItemDoc(b), "literal", UwList(<<UwString(LiteralText(b))>>))

\* the markup without a line: the line reader reports EOF on the first read
InitEmpty == Start(<<>>, "empty", UwError("EOF"))

\* amw_parse on documents of nested blocks with comments and blank lines
InitBlocks ==
    /\ \/ InitQuotedAlone
       \/ InitEmpty
       \/ InitLiteral
       \/ InitKeySpec
       \/ InitLeading
       \/ InitDedented
    /\ parser = amw_create_parser(doc, "unset")
    /\ pc = "start"
    /\ result = UwNull

SpecBlocks == InitBlocks /\ [][Next]_vars

\* C11: a multi-line quoted string whose closing quote stands alone on the
\* line after the block, at the column of the opening quote, is accepted and
\* is the folded text of the block; no such document ends with "String
\* contains no closing quote".
C11_ClosingQuoteAlone == (scn.kind = "quotedalone" /\ Done) => result = scn.expect

\* C12: blank lines and comment lines that precede the first content line of
\* a nested block (a list item or map value that starts on the next line) are
\* skipped: they are not part of the value.
C12_LeadingLinesSkipped == (scn.kind = "leading" /\ Done) => result = scn.expect

\* C13: a comment line left of the block indent between two lines of a block
\* neither ends the block nor becomes part of it: the value is that of the
\* block without the comment lines.
C13_DedentedCommentSkipped == (scn.kind = "dedented" /\ Done) => result = scn.expect

C13_CommentInsideLiteral ==
    /\ scn.kind = "dedented" /\ Done
    /\ doc = <<<<"-", " ", "a", "b">>, <<" ", "#", " ", "c">>, <<" ", " ", "c", "d">>>>
    /\ result = UwList(<<UwString(<<"a", "b">> \o <<"\n">> \o <<"c", "d">> \o <<"\n">>)>>)


\* C21: a colon followed at once by a registered conversion specifier is a
\* key-value separator: `key::name: text` parses to the map of one entry whose
\* key is the text before the colon and whose value is the block that the
\* specifier's parser makes of the text.
C21_KeyThenSpecifier == (scn.kind = "keyspec" /\ Done) => result = scn.expect

\* C23: amw_parse on a markup without a line never comes to parse a value
\* (the dispatcher is not called, no block is entered, no parse error is
\* made) and returns the EOF error.
C23_EmptyInputIsEof ==
    scn.kind = "empty" =>
        /\ pc \in {"start", "done"}
        /\ \A i \in Events : Event(i)[1] \notin {"enter", "error", "read"}
        /\ Done => result = UwError("EOF")

C23_EmptyInputDone ==
    /\ scn.kind = "empty" /\ Done
    /\ doc = <<>>
    /\ parser.eof
    /\ result = UwError("EOF")

MaxRegistrations == 2

\* names the host registers functions for: one built in, one new, and one
\* that is the new one with a space before it
V_NAME == <<"v">>
RegisteredNames == {RAW, V_NAME, <<" ">> \o V_NAME}

\* the functions of amw.h that have the type AmwBlockParserFunc
HostParserFuncs == {"_amw_json_parser_func", "_amw_read_block"}

\* the text between the colons of a document: names with and without spaces
\* around them, `u` registered by nobody
SpecifierTexts ==
    {RAW, LITERAL, V_NAME, <<" ">> \o V_NAME \o <<" ">>, <<" ">> \o RAW, <<"u">>}

\* `:s: ab`, and `:s:` with the block ` ab` on the next line
SpecifierDoc(s, inline) ==
    LET head == <<":">> \o s \o <<":">>
    IN  IF inline THEN <<head \o <<" ", "a", "b">>>> ELSE <<head, <<" ", "a", "b">>>>

InitRegistry ==
    /\ \E s \in SpecifierTexts, inline \in BOOLEAN :
          Start(SpecifierDoc(s, inline), "registry",
                [name |-> uw_string_trim(s),
                 literal |-> ConvValue(LITERAL, SpecifierDoc(s, inline))])
    /\ parser = amw_create_parser(doc, "unset")
    /\ pc = "start"
    /\ result = UwNull

\* the host calls amw_set_custom_parser on the parser it has created
SetCustomParser ==
    /\ pc = "start"
    /\ Len(parser.log) < MaxRegistrations
    /\ \E convspec \in RegisteredNames, parser_func \in HostParserFuncs :
         parser' = Logged(amw_set_custom_parser(parser, convspec, parser_func),
                          <<"set", convspec, parser_func>>)
    /\ UNCHANGED <<doc, scn, pc, result>>

NextRegistry == SetCustomParser \/ Next

SpecRegistry == InitRegistry /\ [][NextRegistry]_vars

\* the calls of amw_set_custom_parser for the name, in the parser's history
RegistrationsOf(name) ==
    {i \in Events : Event(i)[1] = "set" /\ Event(i)[2] = name}

\* the function a block of the name is run by
EnteredWith(parser_func) ==
    /\ \E i \in Events : Event(i)[1] = "enter" /\ Event(i)[4] = parser_func
    /\ \A i \in Events : Event(i)[1] = "enter" => Event(i)[4] = parser_func

\* C22: after any calls of amw_set_custom_parser made before parsing, the
\* block that `:s:` introduces is run by the function registered last for the
\* trimmed name s, by the built-in one if none was registered for a built-in
\* name, and a `:s:` with a name nobody registered is a literal string.
C22_RegistryDispatch ==
    (scn.kind = "registry" /\ Done) =>
        IF RegistrationsOf(scn.expect.name) # {}
        THEN \E i \in RegistrationsOf(scn.expect.name) :
               /\ \A j \in RegistrationsOf(scn.expect.name) : j <= i
               /\ EnteredWith(Event(i)[3])
        ELSE IF scn.expect.name \in DOMAIN builtin_parsers
        THEN EnteredWith(builtin_parsers[scn.expect.name])
        ELSE result = scn.expect.literal /\ ~\E i \in Events : Event(i)[1] = "enter"

C22_BuiltinOverridden ==
    /\ scn.kind = "registry" /\ Done
    /\ doc = <<<<":", " ", "r", "a", "w", ":", " ", "a", "b">>>>
    /\ Cardinality(RegistrationsOf(RAW)) = 2
    /\ parser.custom_parsers[RAW] = "_amw_read_block"
    /\ EnteredWith("_amw_read_block")
    /\ result = UwList(<<<<":", " ", "a", "b">>>>)

\* ------------------------------------------------------ the recursion cap

\* the caps the blocks are nested under: max_blocklevel, scaled down from
\* AMW_MAX_RESURSION_DEPTH
MaxBlockLevel == 3

\* what opens a nested block: a list item, a map key
Openers == {<<"-", " ">>, <<"a", ":", " ">>}

\* blocks nested on one line, `- a: - 1`, and one per line, each one column
\* deeper than the one around it
RECURSIVE NestedOnOneLine(_)
NestedOnOneLine(ops) ==
    IF ops = <<>> THEN <<"1">> ELSE Head(ops) \o NestedOnOneLine(Tail(ops))

NestedLineByLine(ops) ==
    [i \in 1..(Len(ops) + 1) |->
       IF i <= Len(ops) THEN Indented(i - 1, uw_string_rtrim(ops[i]))
       ELSE Indented(i - 1, <<"1">>)]

NestedDocs(ops) == {<<NestedOnOneLine(ops)>>, NestedLineByLine(ops)}

InitDepth ==
    /\ \E cap \in 1..MaxBlockLevel, n \in 0..(MaxBlockLevel + 1) :
         \E ops \in [1..n -> Openers] : \E d \in NestedDocs(ops) :
            /\ Start(d, "depth", [depth |-> n])
            /\ parser = [amw_create_parser(d, "unset")
                           EXCEPT !.max_blocklevel = cap]
    /\ pc = "start"
    /\ result = UwNull

SpecDepth == InitDepth /\ [][Next]_vars

EventsOf(kind) == {i \in Events : Event(i)[1] = kind}

\* C24: blocklevel is at least 1 and at most max_blocklevel in every state,
\* inside every nested block and after every return from one; a document
\* that nests more blocks than the cap allows ends with the parse error "Too
\* many nested blocks", made without another block being entered and with
\* block_indent and blocklevel as they were at the refused call.
C24_RecursionBound ==
    /\ parser.blocklevel \in 1..parser.max_blocklevel
    /\ \A i \in EventsOf("enter") : Event(i)[5] \in 1..parser.max_blocklevel
    /\ \A i \in EventsOf("leave") : Event(i)[3] \in 1..parser.max_blocklevel
    /\ (scn.kind = "depth" /\ Done /\ scn.expect.depth >= parser.max_blocklevel)
         => /\ ParseError(result, "Too many nested blocks")
            /\ Cardinality(EventsOf("enter")) = parser.max_blocklevel - 1
            /\ \E e \in EventsOf("error") :
                 /\ Event(e)[2] = result
                 /\ \A i \in EventsOf("enter") : i < e
                 /\ Event(e + 1)[1] = "leave"
                 /\ Event(e + 1)[2] = Event(e + 1)[4]
                 /\ Event(e + 1)[3] = Event(e + 1)[5]
                 /\ Event(e + 1)[5] = parser.max_blocklevel
    /\ (scn.kind = "depth" /\ Done /\ scn.expect.depth < parser.max_blocklevel)
         => /\ ~uw_error(result)
            /\ Cardinality(EventsOf("enter")) = scn.expect.depth

C24_ThirdBlockRefused ==
    /\ scn.kind = "depth" /\ Done
    /\ doc = <<<<"-", " ", "a", ":", " ", "-", " ", "1">>>>
    /\ parser.max_blocklevel = 3
    /\ Cardinality(EventsOf("enter")) = 2
    /\ ParseError(result, "Too many nested blocks")
    /\ parser.blocklevel = 1

\* ------------------------------------------------------------ keys of maps

\* lines that start with a key of every kind, with a list item, and with a
\* list item that holds a key; each at column 0 or 2
KeyBodies ==
    {<<"a", ":", " ", "1">>, <<"1", ":", " ", "2">>, <<"\"", "q", "\"", ":", " ", "3">>, <<"n", "u", "l", "l", ":", " ", "4">>, <<"-", "1", ".", "5", ":", " ", "x">>, <<"-", " ", "2">>,
     <<"-", " ", "a", ":", " ", "1">>}
KeyLines == {Indented(k, b) : k \in {0, 2}, b \in KeyBodies}
KeyDocs == UNION {[1..n -> KeyLines] : n \in 1..MaxLines}

InitKeys ==
    /\ \E d \in KeyDocs : Start(d, "keys", UwNull)
    /\ parser = amw_create_parser(doc, "unset")
    /\ pc = "start"
    /\ result = UwNull

SpecKeys == InitKeys /\ [][Next]_vars

KeyTypes == {"null", "bool", "signed", "unsigned", "float", "string"}

\* every key of every map in the value v is of one of KeyTypes
RECURSIVE ScalarKeys(_)
ScalarKeys(v) ==
    CASE v.t = "map" -> \A i \in 1..Len(v.v) :
                           v.v[i][1].t \in KeyTypes /\ ScalarKeys(v.v[i][2])
      [] v.t = "list" -> \A i \in 1..Len(v.v) : ScalarKeys(v.v[i])
      [] OTHER -> TRUE

\* C26: in a value that amw_parse returns, every key of every map, at any
\* depth, is a null, a boolean, a signed or unsigned integer, a float or a
\* string: no list and no map is a key.
C26_KeysAreScalars == (Done /\ ~uw_error(result)) => ScalarKeys(result)

C26_KeysOfThreeTypes ==
    /\ scn.kind = "keys" /\ Done
    /\ doc = <<<<"1", ":", " ", "2">>, <<"\"", "q", "\"", ":", " ", "3">>, <<"n", "u", "l", "l", ":", " ", "4">>>>
    /\ result = UwMap(<< <<UwSigned(1), UwSigned(2)>>,
                         <<UwString(<<"q">>), UwSigned(3)>>,
                         <<UwNull, UwSigned(4)>> >>)

\* ------------------------------------------------- the parser's lifetime

\* The local variable `parser` of amw_parse together with what the allocator
\* has seen: ptr tells whether the variable points to a parser, allocations
\* and releases count the parsers allocated and released, null_deleted tells
\* whether amw_delete_parser was handed a variable that holds nullptr.  While
\* the variable points to a parser, the record holds the parser's fields too.
nullptr ==
    [ptr |-> "nullptr", allocations |-> 0, releases |-> 0, null_deleted |-> FALSE]

\* amw_delete_parser(&parser): with a null parser it reads parser->markup
amw_delete_parser(p) ==
    IF p.ptr = "nullptr" THEN [p EXCEPT !.null_deleted = TRUE]
    ELSE [nullptr EXCEPT !.allocations = p.allocations,
                         !.releases = p.releases + 1,
                         !.null_deleted = p.null_deleted]

\* where amw_create_parser may fail: in allocate, or after it, in creating
\* current_line or custom_parsers or in uw_start_read_lines
CreationOutcomes == {"no memory", "error", "parser"}

\* amw_create_parser as amw_parse sees it: a parser, or nullptr after the
\* parser that was allocated has been deleted again
create_parser(lines, outcome) ==
    CASE outcome = "no memory" -> nullptr
      [] outcome = "error" ->
           amw_delete_parser([ptr |-> "parser", allocations |-> 1,
                              releases |-> 0, null_deleted |-> FALSE])
      [] OTHER ->
           amw_create_parser(lines, "unset")
           @@ [ptr |-> "parser", allocations |-> 1, releases |-> 0,
               null_deleted |-> FALSE]

LifetimeDocs == {<<>>} \cup UNION {[1..n -> FreeLines] : n \in 1..(MaxLines - 1)}

InitLifetime ==
    /\ \E d \in LifetimeDocs : Start(d, "lifetime", UwNull)
    /\ parser = nullptr
    /\ pc = "create"
    /\ result = UwNull

\* amw_parse: create the parser, return UwOOM() if there is none
CreateParser ==
    /\ pc = "create"
    /\ \E outcome \in CreationOutcomes :
         /\ parser' = create_parser(doc, outcome)
         /\ IF outcome = "parser"
            THEN pc' = "start" /\ result' = result
            ELSE pc' = "done" /\ result' = UwError("OOM")
    /\ UNCHANGED <<doc, scn>>

\* what the process does when amw_delete_parser reads through a null parser
NullParserOutcomes == {"crashed", "returned"}

\* amw_parse returns: the cleanup of `parser` calls amw_delete_parser(&parser)
DeleteParser ==
    /\ pc = "done"
    /\ parser' = amw_delete_parser(parser)
    /\ IF parser.ptr = "nullptr"
       THEN pc' \in NullParserOutcomes
       ELSE pc' = "returned"
    /\ UNCHANGED <<doc, scn, result>>

NextLifetime == CreateParser \/ Next \/ DeleteParser

SpecLifetime == InitLifetime /\ [][NextLifetime]_vars

\* C27: on every path through amw_parse the parser that was allocated is
\* released exactly once, amw_delete_parser is never handed a null parser,
\* and amw_parse returns the out-of-memory error, without a crash, when
\* amw_create_parser returns no parser.
C27_ParserReleasedOnce ==
    /\ ~parser.null_deleted
    /\ pc # "crashed"
    /\ parser.releases <= parser.allocations
    /\ pc = "returned" => parser.releases = parser.allocations
    /\ (Done /\ parser.ptr = "nullptr") => result = UwError("OOM")

\* ------------------------------------------------------- the block reader

\* lines as _amw_read_block_line tells them apart: empty, comment, data, the
\* last two behind 0 to MaxIndent spaces, data also with spaces after it
ReaderLines ==
    {<<>>, <<"1", " ">>}
    \cup {Indented(k, b) : k \in 0..MaxIndent, b \in {<<"1">>, CommentLine}}
ReaderDocs == UNION {[1..n -> ReaderLines] : n \in 1..(MaxLines - 1)}

\* calls of _amw_read_block_line that read or push back a line: at most
MaxReaderEvents == 6

\* result holds the status of the last call of _amw_read_block_line and the
\* block indent the call was made with
InitReader ==
    /\ \E d \in ReaderDocs : Start(d, "reader", UwNull)
    /\ \E b \in 0..(MaxIndent + 1), skip \in BOOLEAN :
         /\ parser = [amw_create_parser(doc, "unset")
                        EXCEPT !.block_indent = b, !.skip_comments = skip]
         /\ result = [status |-> UwNull, block_indent |-> b]
    /\ pc = "reader"

\* some parser calls _amw_read_block_line
ReadBlockLine ==
    /\ pc = "reader"
    /\ Len(parser.log) < MaxReaderEvents
    /\ With(_amw_read_block_line(parser), LAMBDA rb :
         /\ parser' = rb.p
         /\ result' = [status |-> rb.r, block_indent |-> parser.block_indent])
    /\ UNCHANGED <<doc, scn, pc>>

\* a nested block is entered or left between two calls
SetBlockIndent ==
    /\ pc = "reader"
    /\ \E b \in 0..(MaxIndent + 1) :
         /\ b # parser.block_indent
         /\ parser' = [parser EXCEPT !.block_indent = b]
    /\ UNCHANGED <<doc, scn, pc, result>>

NextReader == ReadBlockLine \/ SetBlockIndent

SpecReader == InitReader /\ [][NextReader]_vars

\* C28: after a call of _amw_read_block_line that returns success, made in
\* any parser state, current_line is empty or its indent is at least the
\* block indent the call was made with.
C28_IndentAfterRead ==
    (scn.kind = "reader" /\ result.status = UwOK) =>
        \/ parser.current_line = <<>>
        \/ parser.current_indent >= result.block_indent

C28_IndentedLineRead ==
    /\ scn.kind = "reader" /\ result.status = UwOK
    /\ result.block_indent = 2
    /\ doc = <<CommentLine, <<" ", " ", "1">>>>
    /\ parser.current_line = <<" ", " ", "1">>
    /\ parser.current_indent = 2
    /\ parser.line_number = 2

\* the lines the parser has read and pushed back, in order
ReaderHistory == SelectSeq(parser.log, LAMBDA e : e[1] \in {"read", "unread"})

\* the lines are read in order, each again after it was pushed back and not
\* otherwise, and no line is skipped
NoLineLost ==
    /\ ReaderHistory # <<>> => ReaderHistory[1] = <<"read", 1>>
    /\ \A k \in 1..(Len(ReaderHistory) - 1) :
         IF ReaderHistory[k][1] = "read"
         THEN \/ ReaderHistory[k + 1] = <<"read", ReaderHistory[k][2] + 1>>
              \/ ReaderHistory[k + 1] = <<"unread", ReaderHistory[k][2]>>
         ELSE ReaderHistory[k + 1] = <<"read", ReaderHistory[k][2]>>

\* C30: when _amw_read_block_line ends a block at an unindented line that is
\* no comment, current_line is cleared and the line waits, as it was read, in
\* the line source; the next line a later call obtains is that line again,
\* so that no line of the input is lost, whatever the number of blocks that
\* end at the line.
C30_UnindentedLinePushedBack ==
    scn.kind = "reader" =>
      /\ NoLineLost
      /\ (_amw_end_of_block(result.status) /\ ~parser.eof) =>
            /\ parser.current_line = <<>>
            /\ parser.markup.pushback
                 = <<uw_string_rtrim(doc[parser.markup.pos])>>
            /\ parser.log[Len(parser.log)] = <<"unread", parser.markup.pos>>
            /\ parser.markup.line_number = parser.markup.pos - 1
            /\ parser.current_indent < result.block_indent
            /\ doc[parser.markup.pos][parser.current_indent + 1] # AMW_COMMENT
      /\ result.status = UwOK =>
            /\ parser.current_line = uw_string_rtrim(doc[parser.line_number])
            /\ parser.line_number = parser.markup.pos
            /\ parser.markup.pushback = <<>>

C30_TwoBlocksEndAtLine ==
    /\ scn.kind = "reader" /\ result.status = UwOK
    /\ doc = <<<<" ", " ", "1">>, <<"1", " ">>>>
    /\ parser.log = << <<"read", 1>>, <<"read", 2>>, <<"unread", 2>>,
                       <<"read", 2>>, <<"unread", 2>>, <<"read", 2>> >>
    /\ parser.current_line = <<"1">>

\* the block a nested-block entry opened has been left: a later return
\* carries the block indent and the block level the entry was made at
Closed(i) ==
    \E j \in EventsOf("leave") :
      /\ j > i
      /\ Event(j)[4] = Event(i)[3]
      /\ Event(j)[5] = IF Event(i)[4] = "parse_quoted_string"
                       THEN Event(i)[5] ELSE Event(i)[5] - 1

\* C29: every nested-block entry (parse_nested_block, with or without the
\* read of the next line, and the multi-line branch of parse_quoted_string)
\* sets a block indent not smaller than the enclosing block's, and every
\* return from one, with a value or with a parse error, leaves block_indent
\* and blocklevel as they were at the call; once the parse is over every
\* entered block has been left and the parser is back at indent 0, level 1.
C29_BlockIndentRestored ==
    /\ \A i \in EventsOf("enter") : Event(i)[2] >= Event(i)[3]
    /\ \A j \in EventsOf("leave") :
         Event(j)[2] = Event(j)[4] /\ Event(j)[3] = Event(j)[5]
    /\ (pc # "start" /\ EventsOf("abort") = {})
         => /\ \A i \in EventsOf("enter") : Closed(i)
            /\ parser.block_indent = 0
            /\ parser.blocklevel = 1

C29_ErrorTwoBlocksDeep ==
    /\ Done
    /\ doc = <<<<"b", ":">>, <<" ", "b", ":">>, <<" ", " ", "b", ":">>>>
    /\ ParseError(result, "Empty block")
    /\ {<<Event(i)[2], Event(i)[3], Event(i)[5]>> : i \in EventsOf("enter")}
         = {<<1, 0, 2>>, <<2, 1, 3>>}
    /\ \E e \in EventsOf("error") :
         /\ Event(e)[2] = result
         /\ Event(e + 1) = <<"leave", 2, 3, 2, 3>>
         /\ Event(e + 2) = <<"leave", 1, 2, 1, 2>>
         /\ Event(e + 3) = <<"leave", 0, 1, 0, 1>>
    /\ parser.block_indent = 0
    /\ parser.blocklevel = 1
\* ------------------------------------------------------ the push-back buffer

\* positions in the history of the lines pushed back
Unreads == {k \in 1..Len(ReaderHistory) : ReaderHistory[k][1] = "unread"}

\* C31: the push-back buffer never holds more than one line and no push-back
\* is refused: every push-back is of the line read last, a read follows it
\* before the next push-back and returns the line pushed back, and all other
\* reads take the lines in the order of the source.
C31_OneDeepPushback ==
    /\ Len(parser.markup.pushback) <= 1
    /\ result # UwError("PUSHBACK_FULL")
    /\ 1 \notin Unreads
    /\ \A k \in Unreads :
         /\ ReaderHistory[k - 1] = <<"read", ReaderHistory[k][2]>>
         /\ k + 1 \notin Unreads
         /\ k < Len(ReaderHistory)
              => ReaderHistory[k + 1] = <<"read", ReaderHistory[k][2]>>
         /\ k = Len(ReaderHistory) => Len(parser.markup.pushback) = 1
    /\ \A k \in 1..(Len(ReaderHistory) - 1) :
         (k \notin Unreads /\ k + 1 \notin Unreads)
            => ReaderHistory[k + 1][2] = ReaderHistory[k][2] + 1

\* a line pushed back twice, by two blocks that end at it, and read three times
C31_LinePushedBackTwice ==
    /\ Done
    /\ doc = <<<<"-", " ", "a", ":", " ", "1">>, <<"-", " ", "2">>>>
    /\ ~uw_error(result)
    /\ ReaderHistory = << <<"read", 1>>, <<"read", 2>>, <<"unread", 2>>,
                          <<"read", 2>>, <<"unread", 2>>, <<"read", 2>> >>
    /\ \E k \in Unreads :
         /\ k + 2 \in Unreads
         /\ ReaderHistory[k + 2] = ReaderHistory[k]
         /\ ReaderHistory[k + 3] = <<"read", ReaderHistory[k][2]>>
    /\ parser.markup.pushback = <<>>

\* ------------------------------------------------ what follows a map key

\* a map of one pair whose second line holds a key candidate and what follows
\* it, with or without a third line
KeyCandidates == {<<"5">>, <<"\"", "q", "\"">>, <<"n", "u", "l", "l">>}
KeyCandidateValue(key) ==
    CASE key = <<"5">> -> UwSigned(5)
      [] key = <<"\"", "q", "\"">> -> UwString(<<"q">>)
      [] OTHER -> UwNull
\* a separator, with and without a space before it
SeparatorTails == {<<":", " ", "3">>, <<" ", ":", " ", "3">>}
\* end of line, a comment and other characters
OtherTails == {<<>>, <<" ", "#", " ", "c">>, <<" ", "x">>, <<":", "3">>}
ThirdLines == {<<>>} \cup {<<Indented(k, <<"7">>)>> : k \in 0..(MaxIndent + 1)}
KeyEndDoc(key, tail, third) == <<<<"1", ":", " ", "2">>, key \o tail>> \o third

InitKeyEnd ==
    /\ \E key \in KeyCandidates, tail \in SeparatorTails \cup OtherTails,
          third \in ThirdLines :
         Start(KeyEndDoc(key, tail, third), "keyend",
               [key |-> KeyCandidateValue(key),
                separator |-> tail \in SeparatorTails,
                lines |-> 2 + Len(third)])
    /\ parser = amw_create_parser(doc, "unset")
    /\ pc = "start"
    /\ result = UwNull

SpecKeyEnd == InitKeyEnd /\ [][Next]_vars

\* the key noted by event k ends with a key-value separator: it is a scalar
\* and the position written to value_pos is the one after a colon of the line
\* that only spaces separate from the key
KeyBeforeSeparator(k) ==
    /\ Event(k)[2].t \in KeyTypes
    /\ Event(k)[3] \in 1..Len(Event(k)[4])
    /\ Event(k)[4][Event(k)[3]] = ":"
    /\ \/ Event(k)[3] = Len(Event(k)[4])
       \/ Event(k)[4][Event(k)[3] + 1] \in {" ", ":"}

\* C32: a value that parse_value returns where a map key is expected is a
\* scalar followed on its line by a key-value separator, with value_pos set
\* behind the separator's colon; a key candidate followed by the end of the
\* line, a comment or another character makes amw_parse return a parse error,
\* and one followed by a separator becomes a key of the map.
C32_KeyEndsWithSeparator ==
    /\ \A k \in EventsOf("key") : KeyBeforeSeparator(k)
    /\ (scn.kind = "keyend" /\ Done) =>
         IF scn.expect.separator
         THEN scn.expect.lines = 2 =>
                result = UwMap(<< <<UwSigned(1), UwSigned(2)>>,
                                  <<scn.expect.key, UwSigned(3)>> >>)
         ELSE result.t = "status" /\ result.code = "PARSE_ERROR"

\* --------------------------------- the final line of a multi-line string

\* a quoted string opened by `"a`, alone, as a list item or as a map value,
\* with up to two lines `b`, and closed on a final line: by the quote alone, at the block
\* indent of the string or one column beyond it, or after the text `c`, with
\* or without a comment behind the quote
ClosingPrefixes == {<<>>, <<"-", " ">>, <<"k", ":", " ">>}
FinalLines ==
    {[text |-> Spaces(k) \o <<"\"">>, word |-> <<>>] : k \in 0..1}
    \cup {[text |-> <<"c", "\"">>, word |-> <<<<"c">>>>],
          [text |-> <<"c", "\"", " ", "#", " ", "c">>, word |-> <<<<"c">>>>],
          [text |-> <<"c", "\\", "\"", "d", "\"", " ", "#", " ", "c">>, word |-> <<<<"c", "\"", "d">>>>]}
ClosingDoc(prefix, middle, final) ==
    <<prefix \o <<"\"", "a">>>>
    \o [i \in 1..Len(middle) |-> Spaces(Len(prefix) + 1) \o middle[i]]
    \o <<Spaces(Len(prefix) + 1) \o final.text>>
\* the words of the string joined by single spaces
ClosingValue(prefix, middle, final) ==
    With(UwString(uw_list_join(" ", <<<<"a">>>> \o middle \o final.word)),
         LAMBDA str :
           CASE prefix = <<>> -> str
             [] prefix = <<"-", " ">> -> UwList(<<str>>)
             [] OTHER -> UwMap(<< <<UwString(<<"k">>), str>> >>))

InitClosing ==
    /\ \E prefix \in ClosingPrefixes, middle \in {<<>>, <<<<"b">>>>, <<<<"b">>, <<"b">>>>},
          final \in FinalLines :
         Start(ClosingDoc(prefix, middle, final), "closing",
               ClosingValue(prefix, middle, final))
    /\ parser = amw_create_parser(doc, "unset")
    /\ pc = "start"
    /\ result = UwNull

SpecClosing == InitClosing /\ [][Next]_vars

\* C33: the final line of a multi-line quoted string ends before the closing
\* quote: the quote and what follows it add nothing to the string, and a
\* final line of the quote alone adds neither text nor a separator space;
\* `"a` / ` b` / ` "` parses to "a b".
C33_FinalLineTruncated ==
    (scn.kind = "closing" /\ Done) => result = scn.expect

\* ------------------------------------ separators at the ends of the digits

\* the digits before a separator, in every radix
SeparatedHeads == {<<"1">>, <<"1", "2">>, <<"0", "x", "1">>, <<"0", "b", "1">>, <<"0", "o", "7">>}
NumberSeparators == {<<"'">>, <<"_">>}
\* what follows the separator where a digit should: the end of the line, a
\* space, a comment, a colon, another character, a fraction, an exponent and
\* a second separator
SeparatorFollowers ==
    {<<>>, <<" ", "#", " ", "c">>, <<"#", " ", "c">>, <<":", " ", "2">>, <<"x">>, <<".", "5">>, <<"e", "1">>,
     <<"'", "1">>, <<"_", "1">>}
\* a separator as the first of the digits can only follow a radix prefix
LeadingSeparators ==
    {prefix \o sep \o <<"1">> :
        prefix \in {<<"0", "x">>, <<"0", "b">>, <<"0", "o">>}, sep \in NumberSeparators}
\* (an exponent behind a hexadecimal digit is one more digit: left out)
MisplacedSeparators ==
    ({head \o sep \o follower : head \in SeparatedHeads,
         sep \in NumberSeparators, follower \in SeparatorFollowers}
       \ {<<"0", "x", "1">> \o sep \o <<"e", "1">> : sep \in NumberSeparators})
    \cup LeadingSeparators

InitMisplaced ==
    /\ \E text \in MisplacedSeparators :
         Start(<<text>>, "misplaced", UwError("PARSE_ERROR"))
    /\ parser = amw_create_parser(doc, "unset")
    /\ pc = "start"
    /\ result = UwNull

SpecMisplaced == InitMisplaced /\ [][Next]_vars

\* C34: a number whose separator does not stand between two digits, being
\* the first of the digits, following another separator or being followed by
\* the end of the line, a space, a comment, a colon or another character, is
\* a parse error.
C34_SeparatorBetweenDigits ==
    (scn.kind = "misplaced" /\ Done)
        => result.t = "status" /\ result.code = "PARSE_ERROR"

\* ------------------------------------------- numbers beyond the accumulator

\* numbers above the largest value of the unsigned accumulator: the first few
\* and, in steps of a sixteenth of its range, those up to twice the range
OverflowSteps == 16
Overflowing ==
    {UW_UNSIGNED_MOD + i : i \in 0..OverflowSteps}
    \cup {UW_UNSIGNED_MOD + i * (UW_UNSIGNED_MOD \div OverflowSteps) - j :
             i \in 1..OverflowSteps, j \in 0..1}

InitOverflow ==
    /\ \E n \in Overflowing, form \in RadixForms :
         Start(RadixDoc(n, form), "overflow", [number |-> n, radix |-> form.radix])
    /\ parser = amw_create_parser(doc, "unset")
    /\ pc = "start"
    /\ result = UwNull

SpecOverflow == InitOverflow /\ [][Next]_vars

\* C35: a number written in radix 2, 8, 10 or 16 whose value is above the
\* largest value of the unsigned accumulator is the parse error "Numeric
\* overflow", never the value modulo the accumulator's range.
C35_OverflowReported ==
    (scn.kind = "overflow" /\ Done) => ParseError(result, "Numeric overflow")

\* ------------------------------------------- the scanners of a quoted line

\* longest line handed to the two scanners
MaxUnescapeLen == 5
\* lines of ordinary characters, backslashes and quotes
UnescapeLines ==
    UNION {[1..n -> {"a", "\\", "\""}] : n \in 1..MaxUnescapeLen}

\* parse_quoted_string on one line: the line is doc[1], scanned from
\* scn.expect.start_pos on; result collects what the two scanners return
InitUnescape ==
    /\ \E line \in UnescapeLines, start_pos \in 0..1 :
         Start(<<line>>, "unescape", [start_pos |-> start_pos])
    /\ parser = amw_create_parser(doc, "unset")
    /\ pc = "scan"
    /\ result = UwNull

\* parse_quoted_string: look for the closing quote
FindClosingQuote ==
    /\ pc = "scan"
    /\ result' = [closing |-> find_closing_quote(doc[1], "\"",
                                                 scn.expect.start_pos)]
    /\ pc' = "decode"
    /\ UNCHANGED <<doc, scn, parser>>

\* parse_quoted_string: decode the line up to the closing quote
UnescapeLine ==
    /\ pc = "decode"
    /\ With(_amw_unescape_line(parser, doc[1], 1, "\"", scn.expect.start_pos),
            LAMBDA un :
              /\ parser' = un.p
              /\ result' = [closing |-> result.closing, r |-> un.r,
                            end_pos |-> un.end_pos])
    /\ pc' = "returned"
    /\ UNCHANGED <<doc, scn>>

NextUnescape == FindClosingQuote \/ UnescapeLine

SpecUnescape == InitUnescape /\ [][NextUnescape]_vars

\* the line holds ordinary characters from start_pos on and ends with one
\* backslash
EndsWithLoneBackslash(line, start_pos) ==
    /\ start_pos < Len(line)
    /\ line[Len(line)] = "\\"
    /\ \A i \in (start_pos + 1)..(Len(line) - 1) : line[i] = "a"

\* C36: _amw_unescape_line on a line that ends with a lone backslash returns
\* a string, the characters decoded so far followed by a backslash, not a
\* status.
C36_TrailingBackslashKept ==
    (scn.kind = "unescape" /\ pc = "returned"
       /\ EndsWithLoneBackslash(doc[1], scn.expect.start_pos))
        => result.r = UwString(SubSeq(doc[1], scn.expect.start_pos + 1,
                                      Len(doc[1])))

\* C39: on a line that opens with a quote the two scanners agree: where
\* find_closing_quote reports a closing quote, _amw_unescape_line stops
\* decoding at that quote, and where it reports none, _amw_unescape_line
\* does not stop at a quote either; a quote behind an escaped backslash
\* closes the string for both.
C39_ScannersAgree ==
    (scn.kind = "unescape" /\ pc = "returned"
       /\ doc[1][1] = "\"" /\ scn.expect.start_pos = 1)
        => IF result.closing # -1
           THEN result.end_pos = result.closing - 1
           ELSE ~(/\ result.end_pos \in 0..(Len(doc[1]) - 1)
                  /\ doc[1][result.end_pos + 1] = "\"")

\* ------------------------------------------ a data line behind a scalar

\* a single-line scalar as the root value, a list item or a map value, with
\* or without a comment behind it, followed by one line of data at the
\* block's indent or one column beyond it
ScalarTexts == {<<"1">>, <<"t", "r", "u", "e">>, <<"\"", "x", "\"">>}
ScalarTextValue(text) ==
    CASE text = <<"1">> -> UwSigned(1)
      [] text = <<"t", "r", "u", "e">> -> UwBool(TRUE)
      [] OTHER -> UwString(<<"x">>)
BlockPrefixes == {<<>>, <<"-", " ">>, <<"a", ":", " ">>}
\* the value of the document without the line of data
ValueIn(prefix, value) ==
    CASE prefix = <<>> -> value
      [] prefix = <<"-", " ">> -> UwList(<<value>>)
      [] OTHER -> UwMap(<< <<UwString(<<"a">>), value>> >>)
DataLineDoc(prefix, text, comment, k) ==
    <<prefix \o text \o comment, Spaces(Len(prefix) + k) \o <<"z">>>>

InitDataLine ==
    /\ \E prefix \in BlockPrefixes, text \in ScalarTexts,
          comment \in {<<>>, <<" ", "#", " ", "c">>}, k \in 0..1 :
         Start(DataLineDoc(prefix, text, comment, k), "dataline",
               ValueIn(prefix, ScalarTextValue(text)))
    /\ parser = amw_create_parser(doc, "unset")
    /\ pc = "start"
    /\ result = UwNull

SpecDataLine == InitDataLine /\ [][Next]_vars

\* C37: a line of data behind a single-line scalar, in the root block, a
\* list item or a map value, is not dropped without notice: amw_parse
\* returns an error, or a value other than the value of the document without
\* that line.
C37_NoDataLineDropped ==
    (scn.kind = "dataline" /\ Done)
        => (result.t = "status" \/ result # scn.expect)

\* --------------------------------------- a list line without its hyphen

\* the item `- 1` followed by a line at the item column that starts with
\* another character than the hyphen; what follows that character is a
\* space and a value, the end of the line, a value or a separator
NoHyphenFirsts == {"x", "7", "+", ":"}
NoHyphenRests == {<<" ", "2">>, <<>>, <<"2">>, <<":", " ", "2">>}
NoHyphenDoc(k, first, rest) ==
    <<Indented(k, <<"-", " ", "1">>), Indented(k, <<first>> \o rest)>>

InitNoHyphen ==
    /\ \E k \in 0..MaxIndent, first \in NoHyphenFirsts, rest \in NoHyphenRests :
         Start(NoHyphenDoc(k, first, rest), "nohyphen", UwError("PARSE_ERROR"))
    /\ parser = amw_create_parser(doc, "unset")
    /\ pc = "start"
    /\ result = UwNull

SpecNoHyphen == InitNoHyphen /\ [][Next]_vars

\* C38: a line at the item column of a list that does not start with a
\* hyphen is not taken for an item, whatever its second character is: the
\* document is a parse error.
C38_ItemsStartWithHyphen ==
    (scn.kind = "nohyphen" /\ Done)
        => result.t = "status" /\ result.code = "PARSE_ERROR"

\* ------------------------------------------------------------- termination

\* amw_parse runs its steps one after another and nothing holds it back:
\* each step is guarded by the position in amw_parse alone, so a step can be
\* taken exactly when amw_parse has not returned, and it moves the position on
Advance == pc # "done" /\ pc' \in {"parse", "check", "done"} \ {pc}

SpecTermination == Init /\ [][Next]_vars /\ WF_pc(Advance)

PushbacksOf(n) == {i \in EventsOf("unread") : Event(i)[2] = n}

\* between two push-backs of one line the function whose block ended at the
\* line has returned: a nested block was left or a map key was handed back
NoEndlessReread ==
    \A n \in 1..Len(doc) : \A i \in PushbacksOf(n), j \in PushbacksOf(n) :
        i < j => \E k \in EventsOf("leave") \cup EventsOf("key") : i < k /\ k < j

\* the eof flag is set only when every line of the source was taken
EofExhausted ==
    parser.eof => /\ parser.markup.pos = Len(parser.markup.lines)
                  /\ parser.markup.pushback = <<>>

\* C40: for every finite input amw_parse terminates, with a value or with an
\* error status; a value is returned only after the source reported EOF; once
\* the eof flag is set it stays set and no later step takes a line from the
\* source or pushes one back; and no line is pushed back and read again
\* without a return of the function that met the end of its block there.
C40_ParseTerminates ==
    /\ <>Done
    /\ [](Done => (result.t = "status" => uw_error(result)))
    /\ []((Done /\ ~uw_error(result)) => parser.eof)
    /\ [](EofExhausted /\ NoEndlessReread)
    /\ [][parser.eof => /\ parser'.eof
                        /\ parser'.markup = parser.markup
                        /\ ReaderHistory' = ReaderHistory]_vars

\* amw_parse has returned after the end of the source was met, having pushed
\* one line back twice and read it again each time
C40_ReturnedAfterRereads ==
    /\ Done
    /\ parser.eof
    /\ \E n \in 1..Len(doc) : Cardinality(PushbacksOf(n)) >= 2
====
